---- MODULE Spec2Model ----
(***************************************************************************)
(* Script interpreter of the story player (useScriptPlayer): the line      *)
(* tokenizer, the text markup expander, the execution loop with choice     *)
(* branching, and the audio channel manager it drives.                     *)
(*                                                                         *)
(* Strings are TLA+ strings.  The script language uses full-width          *)
(* sentinel characters; they are written here with ASCII stand-ins that    *)
(* occur nowhere else in the modelled scripts:                             *)
(*   U+FF1F (full-width question mark)    "?"                              *)
(*   U+FF01 (full-width exclamation mark) "!"                              *)
(*   U+FF1A (full-width colon)            ";"                              *)
(*   U+FF20 (full-width commercial at)    "@"                              *)
(*   U+FF04 (full-width dollar sign)      "$"                              *)
(* Whitespace is the space character.  JavaScript numbers are records      *)
(* [nan, v] with v in hundredths.                                          *)
(***************************************************************************)
EXTENDS Integers, Sequences, FiniteSets, TLC

\* ------------------------------------------------------------------ strings

Char(s, i) == SubSeq(s, i, i)

Chars(s) == {Char(s, i) : i \in 1..Len(s)}

startsWithAt(s, i, p) == i + Len(p) - 1 <= Len(s) /\ SubSeq(s, i, i + Len(p) - 1) = p

startsWith(s, p) == startsWithAt(s, 1, p)

includes(s, sub) == \E i \in 1..(Len(s) - Len(sub) + 1) : startsWithAt(s, i, sub)

DigitChars == Chars("0123456789")

HexChars == Chars("0123456789abcdefABCDEF")

WordChars == Chars("abcdefghijklmnopqrstuvwxyzABCDEFGHIJKLMNOPQRSTUVWXYZ0123456789_")

Min(S) == CHOOSE x \in S : \A y \in S : x <= y

\* first index >= i whose character is not in cls (Len(s)+1 if none)
RunIn(s, i, cls) == Min({j \in i..Len(s) : Char(s, j) \notin cls} \cup {Len(s) + 1})

\* first index >= i whose character is in excl (Len(s)+1 if none)
RunNotIn(s, i, excl) == Min({j \in i..Len(s) : Char(s, j) \in excl} \cup {Len(s) + 1})

RECURSIVE trimStart(_)
trimStart(s) == IF Len(s) > 0 /\ Char(s, 1) = " " THEN trimStart(SubSeq(s, 2, Len(s))) ELSE s

RECURSIVE trimEnd(_)
trimEnd(s) == IF Len(s) > 0 /\ Char(s, Len(s)) = " " THEN trimEnd(SubSeq(s, 1, Len(s) - 1)) ELSE s

trim(s) == trimEnd(trimStart(s))

\* s.split(/\s+/): the pieces between maximal runs of whitespace
RECURSIVE splitWs(_, _, _)
splitWs(s, i, from) ==
  IF i > Len(s) THEN <<SubSeq(s, from, Len(s))>>
  ELSE IF Char(s, i) = " "
       THEN LET j == RunIn(s, i, {" "})
            IN  <<SubSeq(s, from, i - 1)>> \o splitWs(s, j, j)
       ELSE splitWs(s, i + 1, from)

RECURSIVE join(_, _)
join(parts, sep) ==
  IF Len(parts) = 0 THEN ""
  ELSE IF Len(parts) = 1 THEN parts[1]
  ELSE parts[1] \o sep \o join(Tail(parts), sep)

\* ------------------------------------------------------------------ numbers

Num(n) == [nan |-> FALSE, v |-> n]

NaN == [nan |-> TRUE, v |-> 0]

DigitVal(c) == CHOOSE d \in 0..9 : Char("0123456789", d + 1) = c

RECURSIVE DigitsVal(_, _)
DigitsVal(s, acc) ==
  IF Len(s) = 0 THEN acc ELSE DigitsVal(SubSeq(s, 2, Len(s)), 10 * acc + DigitVal(Char(s, 1)))

\* parseInt(str): optional sign, then the longest prefix of decimal digits
parseInt(str) ==
  LET s    == trimStart(str)
      neg  == startsWith(s, "-")
      from == IF neg \/ startsWith(s, "+") THEN 2 ELSE 1
      to   == RunIn(s, from, DigitChars)
      mag  == DigitsVal(SubSeq(s, from, to - 1), 0)
  IN  IF to = from THEN NaN ELSE Num(IF neg THEN 0 - mag ELSE mag)

\* parseFloat(str): optional sign, digits, optional fraction (kept to
\* hundredths); the numerals of the modelled scripts carry no exponent
parseFloat(str) ==
  LET s     == trimStart(str)
      neg   == startsWith(s, "-")
      from  == IF neg \/ startsWith(s, "+") THEN 2 ELSE 1
      to    == RunIn(s, from, DigitChars)
      dot   == to <= Len(s) /\ Char(s, to) = "."
      fto   == IF dot THEN RunIn(s, to + 1, DigitChars) ELSE to
      fdig  == IF dot THEN SubSeq(s, to + 1, fto - 1) ELSE ""
      f2    == SubSeq(fdig \o "00", 1, 2)
      mag   == 100 * DigitsVal(SubSeq(s, from, to - 1), 0) + DigitsVal(f2, 0)
  IN  IF to = from /\ Len(fdig) = 0 THEN NaN ELSE Num(IF neg THEN 0 - mag ELSE mag)

\* ------------------------------------------------------- text markup expander

NoMatch == [len |-> 0, out |-> ""]

\* /\[&([^:\]]+):([^\]]+)\]/ : the gender ternary
MatchGender(s, i, playerGender) ==
  LET b == RunNotIn(s, i + 2, {":", "]"})
      d == RunNotIn(s, b + 1, {"]"})
  IN  IF startsWithAt(s, i, "[&") /\ b > i + 2 /\ startsWithAt(s, b, ":")
         /\ d > b + 1 /\ d <= Len(s)
      THEN [len |-> d - i + 1,
            out |-> IF playerGender = "m" THEN SubSeq(s, i + 2, b - 1)
                                          ELSE SubSeq(s, b + 1, d - 1)]
      ELSE NoMatch

\* /\[([0-9a-fA-F]{6})\]/ : colour open
MatchColor(s, i) ==
  IF startsWithAt(s, i, "[") /\ RunIn(s, i + 1, HexChars) >= i + 7
     /\ startsWithAt(s, i + 7, "]")
  THEN [len |-> 8, out |-> "<span style=\"color: #" \o SubSeq(s, i + 1, i + 6) \o "\">"]
  ELSE NoMatch

\* /\[line (\d+)\]/ : an inline rule of width n * 15 px
MatchLine(s, i) ==
  LET e == RunIn(s, i + 6, DigitChars)
  IN  IF startsWithAt(s, i, "[line ") /\ e > i + 6 /\ startsWithAt(s, e, "]")
      THEN [len |-> e - i + 1,
            out |-> "<span style=\"display:inline-block; width: "
                    \o ToString(DigitsVal(SubSeq(s, i + 6, e - 1), 0) * 15)
                    \o "px; border-top: 1px solid currentColor; vertical-align: middle; margin: 0 5px;\"></span>"]
      ELSE NoMatch

\* /\[f ([^\]]+)\]/ : font size
MatchFont(s, i) ==
  LET e    == RunNotIn(s, i + 3, {"]"})
      size == SubSeq(s, i + 3, e - 1)
      cssSize == IF size = "small" THEN "0.75em"
                 ELSE IF size = "medium" THEN "1em"
                 ELSE IF size = "large" THEN "1.5em"
                 ELSE IF size = "x-large" THEN "2em"
                 ELSE IF ~parseFloat(size).nan THEN size \o "em"
                 ELSE "1em"
  IN  IF startsWithAt(s, i, "[f ") /\ e > i + 3 /\ e <= Len(s)
      THEN [len |-> e - i + 1, out |-> "<span style=\"font-size: " \o cssSize \o "\">"]
      ELSE NoMatch

\* /\[servantName \d+:([^:\]]+):([^\]]+)\]/ : replaced by its second group
MatchServantName(s, i) ==
  LET a == RunIn(s, i + 13, DigitChars)
      b == RunNotIn(s, a + 1, {":", "]"})
      d == RunNotIn(s, b + 1, {"]"})
  IN  IF startsWithAt(s, i, "[servantName ") /\ a > i + 13 /\ startsWithAt(s, a, ":")
         /\ b > a + 1 /\ startsWithAt(s, b, ":") /\ d > b + 1 /\ d <= Len(s)
      THEN [len |-> d - i + 1, out |-> SubSeq(s, b + 1, d - 1)]
      ELSE NoMatch

\* /\[(?:image|i) [^:]+:([^\]]+)\]/ : replaced by the fallback text
MatchImage(s, i) ==
  LET from == IF startsWithAt(s, i, "[image ") THEN i + 7
              ELSE IF startsWithAt(s, i, "[i ") THEN i + 3 ELSE 0
      b == RunNotIn(s, from, {":"})
      d == RunNotIn(s, b + 1, {"]"})
  IN  IF from > 0 /\ b > from /\ startsWithAt(s, b, ":") /\ d > b + 1 /\ d <= Len(s)
      THEN [len |-> d - i + 1, out |-> SubSeq(s, b + 1, d - 1)]
      ELSE NoMatch

\* /\[#([^:\]]+):([^\]]+)\]/ : ruby
MatchRuby(s, i) ==
  LET b == RunNotIn(s, i + 2, {":", "]"})
      d == RunNotIn(s, b + 1, {"]"})
  IN  IF startsWithAt(s, i, "[#") /\ b > i + 2 /\ startsWithAt(s, b, ":")
         /\ d > b + 1 /\ d <= Len(s)
      THEN [len |-> d - i + 1,
            out |-> "<ruby>" \o SubSeq(s, i + 2, b - 1) \o "<rt>"
                    \o SubSeq(s, b + 1, d - 1) \o "</rt></ruby>"]
      ELSE NoMatch

\* /\[#([^:\]]+)\]/ : emphasis
MatchEmphasis(s, i) ==
  LET b == RunNotIn(s, i + 2, {":", "]"})
  IN  IF startsWithAt(s, i, "[#") /\ b > i + 2 /\ startsWithAt(s, b, "]")
      THEN [len |-> b - i + 1,
            out |-> "<span class=\"emphasis\">" \o SubSeq(s, i + 2, b - 1) \o "</span>"]
      ELSE NoMatch

MatchLiteral(s, i, lit, out) ==
  IF startsWithAt(s, i, lit) THEN [len |-> Len(lit), out |-> out] ELSE NoMatch

\* the match of the rule-th replace() of processText at position i
MatchAt(rule, s, i, playerName, playerGender) ==
  CASE rule = 1  -> MatchGender(s, i, playerGender)
    [] rule = 2  -> MatchColor(s, i)
    [] rule = 3  -> MatchLiteral(s, i, "[-]", "</span>")
    [] rule = 4  -> MatchLine(s, i)
    [] rule = 5  -> MatchFont(s, i)
    [] rule = 6  -> MatchServantName(s, i)
    [] rule = 7  -> MatchImage(s, i)
    [] rule = 8  -> MatchLiteral(s, i, "[r]", "<br>")
    [] rule = 9  -> MatchLiteral(s, i, "[%1]", playerName)
    [] rule = 10 -> MatchRuby(s, i)
    [] rule = 11 -> MatchEmphasis(s, i)

\* String.prototype.replace with a global regular expression: the matches are
\* taken left to right, each search resuming after the previous match;
\* matches[j] is the match of the expression at position j
RECURSIVE splice(_, _, _)
splice(s, i, matches) ==
  LET p == Min({j \in i..Len(s) : matches[j].len > 0} \cup {Len(s) + 1})
  IN  IF p > Len(s) THEN SubSeq(s, i, Len(s))
      ELSE SubSeq(s, i, p - 1) \o matches[p].out \o splice(s, p + matches[p].len, matches)

replaceAll(rule, s, playerName, playerGender) ==
  splice(s, 1, [j \in 1..Len(s) |-> IF Char(s, j) = "["
                                     THEN MatchAt(rule, s, j, playerName, playerGender)
                                     ELSE NoMatch])

RECURSIVE applyRules(_, _, _, _)
applyRules(rule, s, playerName, playerGender) ==
  IF rule > 11 THEN s
  ELSE applyRules(rule + 1, replaceAll(rule, s, playerName, playerGender),
                  playerName, playerGender)

processText(text, playerName, playerGender) == applyRules(1, text, playerName, playerGender)

\* ------------------------------------------------------------ line tokenizer

Cmd(type, commandName, args, speaker, text, choiceId, raw) ==
  [type |-> type, commandName |-> commandName, args |-> args, speaker |-> speaker,
   text |-> text, choiceId |-> choiceId, raw |-> raw]

\* /^?(\d+);(.*)$/ with both groups non-empty
IsChoiceLine(line) ==
  LET e == RunIn(line, 2, DigitChars)
  IN  startsWith(line, "?") /\ e > 2 /\ startsWithAt(line, e, ";") /\ e < Len(line)

\* /^\[([a-zA-Z0-9_]+)(?:\s+(.*))?\]$/
CommandMatch(line) ==
  LET e == RunIn(line, 2, WordChars)
      a == RunIn(line, e, {" "})
  IN  IF startsWith(line, "[") /\ e > 2 /\ Char(line, Len(line)) = "]"
         /\ (e = Len(line) \/ (a > e /\ a <= Len(line)))
      THEN [ok |-> TRUE, name |-> SubSeq(line, 2, e - 1),
            rest |-> IF e = Len(line) THEN "" ELSE SubSeq(line, a, Len(line) - 1)]
      ELSE [ok |-> FALSE, name |-> "", rest |-> ""]

IsHexColor(name) == Len(name) = 6 /\ Chars(name) \subseteq HexChars

\* the tokenizer with every other line of the choice sentinel taken for the end
\* of the block
parseTrimmedChoiceOnly(line, expand) ==
  IF startsWith(line, "$") THEN Cmd("command", "noop", <<>>, "", "", NaN, line)
  ELSE IF startsWith(line, "?") /\ ~IsChoiceLine(line)
  THEN Cmd("choiceEnd", "", <<>>, "", "", NaN, line)
  ELSE IF IsChoiceLine(line)
  THEN Cmd("choice", "", <<>>, "",
           expand[SubSeq(line, RunIn(line, 2, DigitChars) + 1, Len(line))],
           parseInt(SubSeq(line, 2, RunIn(line, 2, DigitChars) - 1)), line)
  ELSE IF startsWith(line, "@")
  THEN Cmd("command", "speaker", <<>>, expand[SubSeq(line, 2, Len(line))], "", NaN, line)
  ELSE IF startsWith(line, "[") /\ line = "[k]"
  THEN Cmd("command", "waitClick", <<>>, "", "", NaN, line)
  ELSE IF startsWith(line, "[") /\ CommandMatch(line).ok /\ ~IsHexColor(CommandMatch(line).name)
  THEN Cmd("command", CommandMatch(line).name,
           IF CommandMatch(line).rest # "" THEN splitWs(CommandMatch(line).rest, 1, 1) ELSE <<>>,
           "", "", NaN, line)
  ELSE Cmd("dialogue", "", <<>>, "", expand[line], NaN, line)

\* parseLine on the trimmed line; expand is processText for the player at hand
parseTrimmed(line, expand) ==
  IF startsWith(line, "$") THEN Cmd("command", "noop", <<>>, "", "", NaN, line)
  ELSE IF line = "?!" THEN Cmd("choiceEnd", "", <<>>, "", "", NaN, line)
  ELSE IF IsChoiceLine(line)
  THEN Cmd("choice", "", <<>>, "",
           expand[SubSeq(line, RunIn(line, 2, DigitChars) + 1, Len(line))],
           parseInt(SubSeq(line, 2, RunIn(line, 2, DigitChars) - 1)), line)
  ELSE IF startsWith(line, "@")
  THEN Cmd("command", "speaker", <<>>, expand[SubSeq(line, 2, Len(line))], "", NaN, line)
  ELSE IF startsWith(line, "[") /\ line = "[k]"
  THEN Cmd("command", "waitClick", <<>>, "", "", NaN, line)
  ELSE IF startsWith(line, "[") /\ CommandMatch(line).ok /\ ~IsHexColor(CommandMatch(line).name)
  THEN Cmd("command", CommandMatch(line).name,
           IF CommandMatch(line).rest # "" THEN splitWs(CommandMatch(line).rest, 1, 1) ELSE <<>>,
           "", "", NaN, line)
  ELSE Cmd("dialogue", "", <<>>, "", expand[line], NaN, line)

parseLine(rawLine, playerName, playerGender) ==
  parseTrimmed(trim(rawLine), [text \in STRING |-> processText(text, playerName, playerGender)])

\* ------------------------------------------------------------- asset helpers

AssetHost == "https://static.atlasacademy.io"

BASE_URL == AssetHost

getAssetUrl(path, region) ==
  IF path = "" THEN ""
  ELSE IF startsWith(path, "http") THEN path
  ELSE BASE_URL \o "/" \o region \o "/"
       \o (IF startsWith(path, "/") THEN SubSeq(path, 2, Len(path)) ELSE path)

getBackgroundUrl(id, region) == getAssetUrl("Back/back" \o id \o ".png", region)

getBgmUrl(id, region) == getAssetUrl("Audio/Bgm/" \o id \o "/" \o id \o ".mp3", region)

getSeUrl(id, region) == getAssetUrl("Audio/SE/" \o id \o ".mp3", region)

\* ----------------------------------------------------------- ResourceManager
\* The machine record m carries every mutable cell a handler can touch.  The
\* cache is the Map in insertion order: a sequence of [url, objectUrl, size].

MAX_SIZE == 50 * 1024 * 1024

MB == 1024 * 1024

\* the assets the clients of the ResourceManager ask for, and the size of the
\* blob the server holds for each
CacheUrls == {"a.png", "b.png", "c.mp3", "d.mp3"}

blobSize(url) ==
  CASE url = "a.png" -> 25 * MB
    [] url = "b.png" -> 30 * MB
    [] url = "c.mp3" -> 10 * MB
    [] OTHER -> 60 * MB

\* scriptData when it is null
NullData == 0 - 1

cacheHas(m, url) == \E i \in 1..Len(m.cache) : m.cache[i].url = url

cacheGet(m, url) == m.cache[CHOOSE i \in 1..Len(m.cache) : m.cache[i].url = url]

cacheDelete(cache, url) == SelectSeq(cache, LAMBDA e : e.url # url)

\* Map.set: a key already there keeps its place
cacheSet(cache, entry) ==
  IF \E i \in 1..Len(cache) : cache[i].url = entry.url
  THEN [i \in 1..Len(cache) |-> IF cache[i].url = entry.url THEN entry ELSE cache[i]]
  ELSE Append(cache, entry)

touch(m, url) ==
  IF cacheHas(m, url)
  THEN [m EXCEPT !.cache = Append(cacheDelete(m.cache, url), cacheGet(m, url))]
  ELSE m

remove(m, url) ==
  IF cacheHas(m, url)
  THEN [m EXCEPT !.currentSize = m.currentSize - cacheGet(m, url).size,
                 !.cache = cacheDelete(m.cache, url)]
  ELSE m

RECURSIVE ensureSpace(_, _)
ensureSpace(m, requiredSize) ==
  IF m.currentSize + requiredSize > MAX_SIZE /\ Len(m.cache) > 0
  THEN ensureSpace(remove(m, m.cache[1].url), requiredSize)
  ELSE m

\* the URLs ensureSpace removes, in the order it removes them
RECURSIVE evictions(_, _)
evictions(m, requiredSize) ==
  IF m.currentSize + requiredSize > MAX_SIZE /\ Len(m.cache) > 0
  THEN <<m.cache[1].url>> \o evictions(remove(m, m.cache[1].url), requiredSize)
  ELSE <<>>

\* preload(url) up to the point where the request is in flight
preload(m, url) ==
  IF cacheHas(m, url) THEN touch(m, url)
  ELSE IF url \in m.pendingRequests THEN m
  ELSE [m EXCEPT !.pendingRequests = @ \cup {url}, !.inFlight = @ \cup {url}]

\* getResolvedUrl(url): the value returned, and the state it leaves
getResolvedUrl(m, url) == IF cacheHas(m, url) THEN cacheGet(m, url).objectUrl ELSE url

getResolvedUrlTouch(m, url) == touch(m, url)

\* ------------------------------------------------------ audio channel manager
\* An audio element is [kind, id, src, volume, paused]; volume is in
\* hundredths.  m.audios holds every element created, m.bgmAudio is an index
\* into it (0 for null) and m.seAudios maps a sound-effect id to an index.

NoAudio == 0

\* assigning HTMLMediaElement.volume throws for a NaN or out-of-range value
VolumeOk(vol) == ~vol.nan /\ vol.v >= 0 /\ vol.v <= 100

setVolume(m, a, vol) ==
  IF m.threw THEN m
  ELSE IF VolumeOk(vol) THEN [m EXCEPT !.audios[a].volume = vol.v, !.audios[a].asked = vol.v]
  ELSE [m EXCEPT !.threw = TRUE]

pause(m, a) == IF m.threw THEN m ELSE [m EXCEPT !.audios[a].paused = TRUE]

\* duration <= 0 is false for NaN
fadeAudio(m, a, duration, targetVolume) ==
  IF m.threw THEN m
  ELSE IF ~duration.nan /\ duration.v <= 0
  THEN LET m1 == setVolume(m, a, targetVolume)
       IN  IF targetVolume = Num(0) THEN pause(m1, a) ELSE m1
  ELSE [m EXCEPT !.fades = @ \cup {[audio |-> a, startVolume |-> m.audios[a].volume,
                                     targetVolume |-> targetVolume, duration |-> duration]},
                 !.audios[a].asked = IF VolumeOk(targetVolume) /\ ~duration.nan
                                     THEN targetVolume.v ELSE @]

\* Math.min(volume * 5.0, 1.0)
adjustedVolume(volume) ==
  IF volume.nan THEN NaN ELSE Num(IF volume.v * 5 < 100 THEN volume.v * 5 ELSE 100)

newAudio(m, kind, id, url) ==
  [m EXCEPT !.audios = Append(@, [kind |-> kind, id |-> id, src |-> url,
                                  volume |-> 100, paused |-> TRUE, asked |-> 100])]

play(m, a) == IF m.threw THEN m ELSE [m EXCEPT !.audios[a].paused = FALSE]

playBgm(m, id, volume, fadeDuration) ==
  LET rawUrl == getBgmUrl(id, m.currentRegion)
      url    == getResolvedUrl(m, rawUrl)
      m0     == getResolvedUrlTouch(m, rawUrl)
      adj    == adjustedVolume(volume)
      old    == m0.bgmAudio
  IN  IF old # NoAudio /\ ~m0.audios[old].paused
         /\ (m0.audios[old].src = url \/ m0.audios[old].src = rawUrl)
      THEN fadeAudio(m0, old, fadeDuration, adj)
      ELSE LET m1 == IF old # NoAudio THEN fadeAudio(m0, old, fadeDuration, Num(0)) ELSE m0
               m2 == newAudio(m1, "bgm", id, url)
               a  == Len(m2.audios)
               m3 == play(setVolume([m2 EXCEPT !.bgmAudio = a], a, Num(0)), a)
               m4 == IF fadeDuration.v > 0 /\ ~fadeDuration.nan
                     THEN fadeAudio(m3, a, fadeDuration, adj)
                     ELSE setVolume(m3, a, adj)
           IN  IF m4.threw THEN m4 ELSE [m4 EXCEPT !.state.bgm = id]

\* id = "" stands for an undefined id
stopBgm(m, id, fadeDuration) ==
  IF m.bgmAudio = NoAudio THEN m
  ELSE IF id # "" /\ ~includes(m.audios[m.bgmAudio].src, id) THEN m
  ELSE LET m1 == fadeAudio(m, m.bgmAudio, fadeDuration, Num(0))
       IN  [m1 EXCEPT !.state.bgm = "null"]

playSe(m, id) ==
  LET rawUrl == getSeUrl(id, m.currentRegion)
      url    == getResolvedUrl(m, rawUrl)
      m1     == newAudio(getResolvedUrlTouch(m, rawUrl), "se", id, url)
      a      == Len(m1.audios)
  IN  [play(m1, a) EXCEPT !.seAudios = [k \in DOMAIN @ \cup {id} |-> IF k = id THEN a ELSE @[k]]]

stopSe(m, id, fadeDuration) ==
  IF id \in DOMAIN m.seAudios
  THEN [fadeAudio(m, m.seAudios[id], fadeDuration, Num(0)) EXCEPT
          !.timers = Append(@, [id |-> id, audio |-> m.seAudios[id]])]
  ELSE m

RECURSIVE stopSeEach(_, _, _)
stopSeEach(m, ids, fadeDuration) ==
  IF ids = {} THEN m
  ELSE LET id == CHOOSE k \in ids : \A o \in ids : m.seAudios[k] <= m.seAudios[o]
       IN  stopSeEach(stopSe(m, id, fadeDuration), ids \ {id}, fadeDuration)

stopAllSound(m, fadeDuration) ==
  stopSeEach(stopBgm(m, "", fadeDuration), DOMAIN m.seAudios, fadeDuration)

\* ------------------------------------------------------------------ inputs

MaxLoads == 2

MaxAudios == 3

MaxTimers == 2

MaxBlobs == 2

MaxCharaLines == 3

MaxAudioLines == 2

MaxBlockLimit == 3

RECURSIVE ScriptsOver(_, _)
ScriptsOver(lines, n) ==
  IF n = 0 THEN {""}
  ELSE {""} \cup {l \o "\n" \o rest : l \in lines, rest \in ScriptsOver(lines, n - 1)}

\* choice blocks: two options, each with its branch, with or without the
\* terminator, a prologue and an epilogue
ChoiceBlockScripts ==
  {pre \o "?1;OptA\n" \o b1 \o "?2;[&he:she]\n" \o b2 \o term \o post :
     pre \in {"", "p\n[k]\n"}, b1 \in {"a\n", "a\n[k]\na2\n"}, b2 \in {"b\n", "b\n[k]\n"},
     term \in {"?!\n", ""}, post \in {"", "z\n"}}

ChoiceOddScripts ==
  {"", "?1;OptA\n?!", "?1;OptA\nx\n[k]\n?!\n[end]", "?1;\n?!\nq", "\n p \n\n[k]\nq",
   "?1;OptA\na\n?1;OptB\nb\n?!", "[51d4ff]Hi[-] [%1]\n[&he:she] said\n[k]\nbye"}

CharaLines == {"[charaSet A 1 0 Mash]", "[charaFadein A 0.4]", "[charaFadeout A 0.4]", "@Mash"}

CharaOddScripts ==
  {"[charaSet A 1 0 Mash]\n[charaSet B 2 1 Mash]\n[charaFadein B 0.4]\n@Mash\n[charaFace B 3]\n[k]\n[charaFace A x]",
   "[charaSet A 1]\n[charaFace A]\n[charaFadein]\n[charaFadeout Z]\n[charaSet C x y Ma sh ]\n$ note",
   "[charaSet A 1 0 Mash]\n[charaSet B 2 1 Mash]\n[charaFadein B 0.4]\n[charaFadein A 0.4]\n[charaFadeout A 0.4]\n@Mash\n[k]\n[charaSet A 3 2 Dr Roman]\n[charaFadein A 0.4]\n[charaFadein B 0.4]\n[charaFadeout A 0.4]\n[charaFadeout B 0.4]",
   "[charaFace Z 1]\n[charaFadein Z 0.4]\n[charaFadeout]\n[scene]\n[bgm]\n[se]\n[charaSet A 1 ]\n[charaSet B 2]\nHi\n[k]"}

AudioLines == {"[bgm bgm01 0.1]", "[bgm bgm01 abc]", "[bgmStop bgm01 1]", "[se ad1]", "[k]"}

AudioOddScripts ==
  {"[scene 001]\n[bgm bgm01 1.0]\nHello\n[k]\n[end]",
   "[bgm bgm02 -1]\n[soundStopAll]\n[wt 0.4]\n[51d4ff]Hi[-]\n[bgmStop]",
   "[se ad1]\n[seStop ad1 0.5]\n[soundStopAllFade 1]\n[bgmStop bgm01 x]\n[seStop ad1 x]\n[scene]",
   "[bgm bgm01 0.1]\n[bgmStop bgm01 1]\n[bgm bgm01 0.1]"}

\* a sound effect replayed after its stop, and a track replayed after a block
ReplayScripts ==
  {"[se ad1]\n[seStop ad1 0]\n[se ad1]",
   "[k]\n[bgm bgm01 0.1]\n[scene 001]"}

\* a choice block whose branches and whose continuation name backgrounds
LookaheadScripts ==
  {"?1;OptA\n[k]\n[scene 002]\n?2;OptB\n[scene 003]\n[k]\n?!\n[scene 005]"}

\* bracketed lines of every shape, and markup inside markup
MarkupScripts ==
  {"[a1b2c3]\n[abcdef 1]\n[bgm bgm001 0.5]\n[f large]Big[-]\n$ note\n[k]\nSay [[&r:x]] now"}

Quests ==
  {[region |-> "JP", scripts |-> ChoiceBlockScripts \cup ChoiceOddScripts],
   [region |-> "KR", scripts |-> ScriptsOver(CharaLines, MaxCharaLines) \cup CharaOddScripts],
   [region |-> "NA", scripts |-> ScriptsOver(AudioLines, MaxAudioLines) \cup AudioOddScripts],
   [region |-> "CN", scripts |-> ReplayScripts],
   [region |-> "TW", scripts |-> LookaheadScripts \cup MarkupScripts]}

ChoiceIds == {1, 2, 3}

AssetSizes == {30 * 1024 * 1024, 60 * 1024 * 1024}

\* content.split('\n')
RECURSIVE splitLines(_, _)
splitLines(s, from) ==
  LET j == RunNotIn(s, from, {"\n"})
  IN  IF j > Len(s) THEN <<SubSeq(s, from, Len(s))>>
      ELSE <<SubSeq(s, from, j - 1)>> \o splitLines(s, j + 1)

NullChar == <<>>

InitialState ==
  [background |-> "null", bgm |-> "null", characters |-> <<>>, activeCharacter |-> NullChar,
   text |-> "", speaker |-> "", isFinished |-> FALSE, choices |-> <<>>,
   playerName |-> "Fujimaru Ritsuka (kanji)", playerGender |-> "m"]

defaultPlayerName(region) ==
  CASE region = "NA" -> "Fujimaru"
    [] region = "KR" -> "Fujimaru (hangul)"
    [] OTHER -> "Fujimaru (kanji)"


\* the lines, player names and genders parseLine can meet, and its value on
\* each of them
LinesOf(content) == {splitLines(content, 1)[i] : i \in 1..Len(splitLines(content, 1))}

ParseInputs == UNION {{<<l, defaultPlayerName(q.region), InitialState.playerGender>> :
                          l \in UNION {LinesOf(c) : c \in q.scripts}} : q \in Quests}

parseTable == [x \in ParseInputs |-> parseLine(x[1], x[2], x[3])]

\* -------------------------------------------------------------- interpreter

NullIndex == -1

Parse(m, line) == parseTable[<<line, m.state.playerName, m.state.playerGender>>]

\* characters is the Record in key insertion order: a sequence of
\* [code, id, ascension, name, face, visible]
hasChar(characters, code) == \E i \in 1..Len(characters) : characters[i].code = code

charIndex(characters, code) == CHOOSE i \in 1..Len(characters) : characters[i].code = code

putChar(characters, c) ==
  IF hasChar(characters, c.code)
  THEN [characters EXCEPT ![charIndex(characters, c.code)] = c]
  ELSE Append(characters, c)

\* the forward scan of a choice block: acc = [choices, blockEndIndex]
RECURSIVE scanChoices(_, _, _)
RECURSIVE scanLine(_, _, _, _)
scanLine(m, tempIndex, acc, scanCmd) ==
  IF scanCmd.type = "choice"
  THEN scanChoices(m, tempIndex + 1,
         IF scanCmd.text # ""
         THEN [acc EXCEPT !.choices = Append(@, [id |-> scanCmd.choiceId.v,
                 text |-> scanCmd.text, startIndex |-> tempIndex + 1])]
         ELSE acc)
  ELSE IF scanCmd.type = "choiceEnd"
  THEN [acc EXCEPT !.blockEndIndex = tempIndex + 1]
  ELSE scanChoices(m, tempIndex + 1, acc)

scanChoices(m, tempIndex, acc) ==
  IF tempIndex >= Len(m.scriptLines) THEN acc
  ELSE IF m.scriptLines[tempIndex + 1] = "" THEN scanChoices(m, tempIndex + 1, acc)
  ELSE scanLine(m, tempIndex, acc, Parse(m, m.scriptLines[tempIndex + 1]))

\* choices.reduce(...): a later choice with the same id overwrites an earlier one
choiceMapOf(choices) ==
  [id \in {choices[i].id : i \in 1..Len(choices)} |->
     choices[CHOOSE i \in 1..Len(choices) :
               choices[i].id = id /\ \A j \in (i + 1)..Len(choices) : choices[j].id # id].startIndex]

\* promptChoices offering the choices of a block that has no end
promptChoicesUnterminated(m, sc) ==
  IF Len(sc.choices) > 0
  THEN [m EXCEPT !.state.choices = [i \in 1..Len(sc.choices) |->
                                     [id |-> sc.choices[i].id, text |-> sc.choices[i].text]],
                 !.choiceMap = choiceMapOf(sc.choices),
                 !.jumpOnNextChoiceMarker = sc.blockEndIndex,
                 !.stop = TRUE]
  ELSE m

\* the choice block found by the scan is offered, and the marker armed
promptChoices(m, sc) ==
  IF sc.blockEndIndex # NullIndex /\ Len(sc.choices) > 0
  THEN [m EXCEPT !.state.choices = [i \in 1..Len(sc.choices) |->
                                     [id |-> sc.choices[i].id, text |-> sc.choices[i].text]],
                 !.choiceMap = choiceMapOf(sc.choices),
                 !.jumpOnNextChoiceMarker = sc.blockEndIndex,
                 !.stop = TRUE]
  ELSE m

\* a Choice line met with the marker disarmed: the start of a choice block
openChoiceBlock(m, cmd) ==
  promptChoices(m, scanChoices(m, m.currentLineIndex,
                     [choices |-> IF cmd.text # ""
                                  THEN <<[id |-> cmd.choiceId.v, text |-> cmd.text,
                                          startIndex |-> m.currentLineIndex]>>
                                  ELSE <<>>,
                      blockEndIndex |-> NullIndex]))

\* stepChoice with the jump leaving the marker armed
stepChoiceKeepsMarker(m, cmd) ==
  IF m.jumpOnNextChoiceMarker # NullIndex
  THEN [m EXCEPT !.currentLineIndex = m.jumpOnNextChoiceMarker]
  ELSE openChoiceBlock(m, cmd)

stepChoice(m, cmd) ==
  IF m.jumpOnNextChoiceMarker # NullIndex
  THEN [m EXCEPT !.currentLineIndex = m.jumpOnNextChoiceMarker,
                 !.jumpOnNextChoiceMarker = NullIndex]
  ELSE openChoiceBlock(m, cmd)

activeCopy(char) == <<char>>

stepSpeaker(m, cmd) ==
  LET m1    == [m EXCEPT !.state.speaker = cmd.speaker]
      chars == m1.state.characters
      named == {i \in 1..Len(chars) : chars[i].name = cmd.speaker}
  IN  IF cmd.speaker # "" /\ named # {} /\ chars[Min(named)].visible
      THEN [m1 EXCEPT !.state.activeCharacter = activeCopy(chars[Min(named)])]
      ELSE m1

\* stepCharaSet with a re-defined Character staying on screen
stepCharaSetKeepsVisible(m, args) ==
  IF Len(args) >= 3 /\ args[1] # "" /\ args[2] # "" /\ args[3] # ""
  THEN [m EXCEPT !.state.characters = putChar(@,
          [code |-> args[1], id |-> parseInt(args[2]), ascension |-> parseInt(args[3]),
           name |-> join(SubSeq(args, 4, Len(args)), " "), face |-> Num(0),
           visible |-> hasChar(m.state.characters, args[1])
                       /\ m.state.characters[charIndex(m.state.characters, args[1])].visible])]
  ELSE m

stepCharaSet(m, args) ==
  IF Len(args) >= 3 /\ args[1] # "" /\ args[2] # "" /\ args[3] # ""
  THEN [m EXCEPT !.state.characters = putChar(@,
          [code |-> args[1], id |-> parseInt(args[2]), ascension |-> parseInt(args[3]),
           name |-> join(SubSeq(args, 4, Len(args)), " "), face |-> Num(0), visible |-> FALSE])]
  ELSE m

stepCharaFace(m, args) ==
  IF Len(args) >= 2 /\ args[1] # "" /\ args[2] # "" /\ hasChar(m.state.characters, args[1])
  THEN LET i  == charIndex(m.state.characters, args[1])
           m1 == [m EXCEPT !.state.characters[i].face = parseInt(args[2])]
       IN  IF m1.state.activeCharacter # NullChar /\ m1.state.activeCharacter[1].code = args[1]
           THEN [m1 EXCEPT !.state.activeCharacter = activeCopy(m1.state.characters[i])]
           ELSE m1
  ELSE m

\* stepCharaFadein creating the Character a script never defined
stepCharaFadeinCreates(m, args) ==
  IF Len(args) >= 1 /\ args[1] # ""
  THEN LET chars == putChar(m.state.characters,
                      IF hasChar(m.state.characters, args[1])
                      THEN [m.state.characters[charIndex(m.state.characters, args[1])]
                              EXCEPT !.visible = TRUE]
                      ELSE [code |-> args[1], id |-> Num(0), ascension |-> Num(0), name |-> "",
                            face |-> Num(0), visible |-> TRUE])
       IN  [m EXCEPT !.state.characters = chars,
                     !.state.activeCharacter = activeCopy(chars[charIndex(chars, args[1])])]
  ELSE m

\* stepCharaFadein activating the Character only when none is active
stepCharaFadeinKeepsActive(m, args) ==
  IF Len(args) >= 1 /\ args[1] # "" /\ hasChar(m.state.characters, args[1])
  THEN LET i  == charIndex(m.state.characters, args[1])
           m1 == [m EXCEPT !.state.characters[i].visible = TRUE]
       IN  IF m1.state.activeCharacter = NullChar
           THEN [m1 EXCEPT !.state.activeCharacter = activeCopy(m1.state.characters[i])]
           ELSE m1
  ELSE m

stepCharaFadein(m, args) ==
  IF Len(args) >= 1 /\ args[1] # "" /\ hasChar(m.state.characters, args[1])
  THEN LET i  == charIndex(m.state.characters, args[1])
           m1 == [m EXCEPT !.state.characters[i].visible = TRUE]
       IN  [m1 EXCEPT !.state.activeCharacter = activeCopy(m1.state.characters[i])]
  ELSE m

\* stepCharaFadeout hiding the Character and leaving the active character
stepCharaFadeoutKeepsActive(m, args) ==
  IF Len(args) >= 1 /\ args[1] # "" /\ hasChar(m.state.characters, args[1])
  THEN [m EXCEPT !.state.characters[charIndex(m.state.characters, args[1])].visible = FALSE]
  ELSE m

stepCharaFadeout(m, args) ==
  IF Len(args) >= 1 /\ args[1] # ""
  THEN LET m1 == IF hasChar(m.state.characters, args[1])
                 THEN [m EXCEPT !.state.characters[charIndex(m.state.characters, args[1])].visible = FALSE]
                 ELSE m
       IN  IF m1.state.activeCharacter # NullChar /\ m1.state.activeCharacter[1].code = args[1]
           THEN [m1 EXCEPT !.state.activeCharacter = NullChar]
           ELSE m1
  ELSE m

stepScene(m, args) ==
  IF Len(args) > 0
  THEN LET rawUrl == getBackgroundUrl(args[1], m.currentRegion)
       IN  [getResolvedUrlTouch(m, rawUrl) EXCEPT !.state.background = getResolvedUrl(m, rawUrl)]
  ELSE m

\* the second argument parsed as a float, or the default when it is absent
floatArg(args, n, default) == IF Len(args) >= n THEN parseFloat(args[n]) ELSE default

stepCommand(m, cmd) ==
  LET name == cmd.commandName
      args == cmd.args
  IN  CASE name = "noop" -> m
        [] name = "speaker" -> stepSpeaker(m, cmd)
        [] name = "waitClick" -> [m EXCEPT !.stop = TRUE]
        [] name = "scene" -> stepScene(m, args)
        [] name = "bgm" ->
             IF Len(args) > 0 THEN playBgm(m, args[1], floatArg(args, 2, Num(100)), Num(0)) ELSE m
        [] name = "bgmStop" ->
             IF Len(args) > 0 THEN stopBgm(m, args[1], floatArg(args, 2, Num(0))) ELSE m
        [] name = "se" -> IF Len(args) > 0 THEN playSe(m, args[1]) ELSE m
        [] name = "seStop" ->
             IF Len(args) > 0 THEN stopSe(m, args[1], floatArg(args, 2, Num(0))) ELSE m
        [] name = "soundStopAll" -> stopAllSound(m, Num(0))
        [] name = "soundStopAllFade" ->
             IF Len(args) > 0 THEN stopAllSound(m, parseFloat(args[1]))
             ELSE stopAllSound(m, Num(0))
        [] name = "charaSet" -> stepCharaSet(m, args)
        [] name = "charaFace" -> stepCharaFace(m, args)
        [] name = "charaFadein" -> stepCharaFadein(m, args)
        [] name = "charaFadeout" -> stepCharaFadeout(m, args)
        [] name = "end" -> [m EXCEPT !.state.isFinished = TRUE, !.stop = TRUE]
        [] OTHER -> m

\* stepDialogue with each Dialogue line replacing the text
stepDialogueReplaces(m, cmd) == [m EXCEPT !.state.text = cmd.text]

stepDialogue(m, cmd) ==
  [m EXCEPT !.state.text = IF @ # "" THEN @ \o "\n" \o cmd.text ELSE cmd.text]

\* the switch on cmd.type, on the machine whose cursor has moved past the line
execute(m1, cmd) ==
  CASE cmd.type = "choice" -> stepChoice(m1, cmd)
    [] cmd.type = "choiceEnd" ->
         IF m1.jumpOnNextChoiceMarker # NullIndex
         THEN [m1 EXCEPT !.jumpOnNextChoiceMarker = NullIndex] ELSE m1
    [] cmd.type = "command" -> stepCommand(m1, cmd)
    [] cmd.type = "dialogue" -> stepDialogue(m1, cmd)

\* the cells an iteration can write, as they stand at one moment
Cells(m) ==
  [currentLineIndex |-> m.currentLineIndex,
   jumpOnNextChoiceMarker |-> m.jumpOnNextChoiceMarker, choiceMap |-> m.choiceMap,
   state |-> m.state, isLoading |-> m.isLoading, currentRegion |-> m.currentRegion,
   bgmAudio |-> m.bgmAudio, seAudios |-> m.seAudios, audios |-> m.audios, fades |-> m.fades,
   timers |-> m.timers, cache |-> m.cache, currentSize |-> m.currentSize,
   pendingRequests |-> m.pendingRequests, inFlight |-> m.inFlight, blobCount |-> m.blobCount]

\* the record of one iteration: m before it, m2 after it
logged(m, cmd, m2) ==
  [m2 EXCEPT !.log = Append(@, [index |-> m.currentLineIndex, type |-> cmd.type,
                                commandName |-> cmd.commandName,
                                cmd |-> cmd, before |-> Cells(m), after |-> Cells(m2),
                                choicesBefore |-> m.state.choices,
                                markerBefore |-> m.jumpOnNextChoiceMarker,
                                markerAfter |-> m2.jumpOnNextChoiceMarker,
                                indexAfter |-> m2.currentLineIndex,
                                choicesAfter |-> m2.state.choices,
                                stop |-> m2.stop, threw |-> m2.threw])]

stepParsed(m, cmd) == logged(m, cmd, execute([m EXCEPT !.currentLineIndex = @ + 1], cmd))

\* one iteration of the while loop of processNextBlock; the iteration is
\* recorded in m.log
stepLine(m) == stepParsed(m, Parse(m, m.scriptLines[m.currentLineIndex + 1]))

RECURSIVE blockLoop(_)
blockLoop(m) ==
  IF ~m.stop /\ ~m.threw /\ m.currentLineIndex < Len(m.scriptLines)
  THEN blockLoop(stepLine(m))
  ELSE m

\* the statement after the loop: the cursor at the end finishes the script
finishAtEnd(m1) ==
  IF ~m1.threw /\ m1.currentLineIndex >= Len(m1.scriptLines)
  THEN [m1 EXCEPT !.state.isFinished = TRUE]
  ELSE m1

processNextBlock(m) == finishAtEnd(blockLoop([m EXCEPT !.stop = FALSE]))

\* ------------------------------------------------------- lookahead preloader

\* preloadCommand with a scanned scene shown at once
preloadCommandShowsScene(m, cmd, region) ==
  LET name == cmd.commandName
      args == cmd.args
  IN  CASE name = "bgm" /\ Len(args) > 0 -> preload(m, getBgmUrl(args[1], region))
        [] name = "se" /\ Len(args) > 0 -> preload(m, getSeUrl(args[1], region))
        [] name = "scene" /\ Len(args) > 0 ->
             [preload(m, getBackgroundUrl(args[1], region)) EXCEPT
                !.state.background = getBackgroundUrl(args[1], region)]
        [] name = "charaSet" /\ Len(args) >= 3 ->
             preload(m, getAssetUrl("CharaFigure/" \o args[2] \o "/" \o args[2] \o "_merged.png",
                                    region))
        [] OTHER -> m

preloadCommand(m, cmd, region) ==
  LET name == cmd.commandName
      args == cmd.args
  IN  CASE name = "bgm" /\ Len(args) > 0 -> preload(m, getBgmUrl(args[1], region))
        [] name = "se" /\ Len(args) > 0 -> preload(m, getSeUrl(args[1], region))
        [] name = "scene" /\ Len(args) > 0 -> preload(m, getBackgroundUrl(args[1], region))
        [] name = "charaSet" /\ Len(args) >= 3 ->
             preload(m, getAssetUrl("CharaFigure/" \o args[2] \o "/" \o args[2] \o "_merged.png",
                                    region))
        [] OTHER -> m

RECURSIVE preloadScan(_, _, _, _, _, _, _)
RECURSIVE preloadLine(_, _, _, _, _, _, _, _)
RECURSIVE preloadRest(_, _, _, _, _, _, _, _)
\* the scan step without the reset of the block counter at a Choice line
preloadLineNoReset(m, index, region, limitBlocks, blocksFound, isPreloading, hasEncounteredChoice, cmd) ==
  LET isChoice == cmd.type = "choice"
      pre1     == isChoice \/ isPreloading
      seen1    == isChoice \/ hasEncounteredChoice
      blocks2  == IF pre1 /\ cmd.type = "command" /\ cmd.commandName = "waitClick"
                  THEN blocksFound + 1
                  ELSE IF pre1 /\ cmd.type = "command" /\ cmd.commandName = "end"
                  THEN limitBlocks
                  ELSE blocksFound
      pre2     == pre1 /\ blocks2 < limitBlocks
  IN  IF cmd.type = "choiceEnd" THEN m
      ELSE preloadRest(IF pre1 /\ cmd.type = "command" THEN preloadCommand(m, cmd, region) ELSE m,
                       index, region, limitBlocks, blocks2, pre2, seen1,
                       pre1 /\ blocks2 >= limitBlocks /\ ~seen1)

preloadLine(m, index, region, limitBlocks, blocksFound, isPreloading, hasEncounteredChoice, cmd) ==
  LET isChoice == cmd.type = "choice"
      blocks1  == IF isChoice THEN 0 ELSE blocksFound
      pre1     == isChoice \/ isPreloading
      seen1    == isChoice \/ hasEncounteredChoice
      blocks2  == IF pre1 /\ cmd.type = "command" /\ cmd.commandName = "waitClick"
                  THEN blocks1 + 1
                  ELSE IF pre1 /\ cmd.type = "command" /\ cmd.commandName = "end"
                  THEN limitBlocks
                  ELSE blocks1
      pre2     == pre1 /\ blocks2 < limitBlocks
  IN  IF cmd.type = "choiceEnd" THEN m
      ELSE preloadRest(IF pre1 /\ cmd.type = "command" THEN preloadCommand(m, cmd, region) ELSE m,
                       index, region, limitBlocks, blocks2, pre2, seen1,
                       pre1 /\ blocks2 >= limitBlocks /\ ~seen1)

preloadRest(m1, index, region, limitBlocks, blocks2, pre2, seen1, break) ==
  IF break THEN m1 ELSE preloadScan(m1, index + 1, region, limitBlocks, blocks2, pre2, seen1)

preloadScan(m, index, region, limitBlocks, blocksFound, isPreloading, hasEncounteredChoice) ==
  IF index >= Len(m.scriptLines) THEN m
  ELSE IF m.scriptLines[index + 1] = ""
  THEN preloadScan(m, index + 1, region, limitBlocks, blocksFound, isPreloading,
                   hasEncounteredChoice)
  ELSE preloadLine(m, index, region, limitBlocks, blocksFound, isPreloading,
                   hasEncounteredChoice, Parse(m, m.scriptLines[index + 1]))

preloadUpcomingAssets(m, startIndex, region, limitBlocks) ==
  preloadScan(m, startIndex, region, limitBlocks, 0, TRUE, FALSE)

\* ------------------------------------------------------------------- state

VARIABLES
  scriptLines,             \* the Script Source
  currentLineIndex,        \* the cursor (0-based)
  jumpOnNextChoiceMarker,  \* the return-here marker, NullIndex when disarmed
  choiceMap,               \* choice id -> resume index
  state,                   \* the presentation state (ScriptState)
  isLoading,
  currentRegion,
  bgmAudio, seAudios,      \* the audio channels
  audios,                  \* every audio element created so far
  fades,                   \* fade loops with a frame callback pending
  timers,                  \* delayed sound-effect removals pending
  cache, currentSize, pendingRequests,   \* the ResourceManager
  inFlight,                \* asset requests the network has not answered
  blobCount,               \* object URLs created so far
  quest,                   \* the quest being played: [region, scripts]
  call,                    \* the last interpreter call and how it ended
  log,                     \* the loop iterations of the last call
  loads,                   \* the number of loadScript calls so far
  armedHere,               \* the marker was armed by a prompt of the loaded script
  fetches,                 \* the loadScript calls so far: [content, done]
  requests,                \* asset URL -> responses the network still owes
  recency,                 \* the cached URLs, least recently used first
  charaGraphId,            \* the prop of the Character component
  scriptData,              \* the id whose metadata the component holds
  svtLoading,              \* the component's isLoading
  svtFetches               \* the component's fetches so far: [id, superseded, done]

vars == <<scriptLines, currentLineIndex, jumpOnNextChoiceMarker, choiceMap, state, isLoading,
          currentRegion, bgmAudio, seAudios, audios, fades, timers, cache, currentSize,
          pendingRequests, inFlight, blobCount, quest, call, log, loads, armedHere,
          fetches, requests, recency, charaGraphId, scriptData, svtLoading, svtFetches>>

\* the cells of the overlapping loads, of the ResourceManager's own clients and
\* of the Character component, which the handlers of the interpreter leave alone
loadVars == <<fetches>>

cacheVars == <<requests, recency>>

charaVars == <<charaGraphId, scriptData, svtLoading, svtFetches>>

\* the mutable cells as one record, for the handlers' operators
Machine ==
  [scriptLines |-> scriptLines, currentLineIndex |-> currentLineIndex,
   jumpOnNextChoiceMarker |-> jumpOnNextChoiceMarker, choiceMap |-> choiceMap,
   state |-> state, isLoading |-> isLoading, currentRegion |-> currentRegion,
   bgmAudio |-> bgmAudio, seAudios |-> seAudios, audios |-> audios, fades |-> fades,
   timers |-> timers, cache |-> cache, currentSize |-> currentSize,
   pendingRequests |-> pendingRequests, inFlight |-> inFlight, blobCount |-> blobCount,
   stop |-> FALSE, threw |-> FALSE, log |-> <<>>]

Commit(m) ==
  /\ scriptLines' = m.scriptLines
  /\ currentLineIndex' = m.currentLineIndex
  /\ jumpOnNextChoiceMarker' = m.jumpOnNextChoiceMarker
  /\ choiceMap' = m.choiceMap
  /\ state' = m.state
  /\ isLoading' = m.isLoading
  /\ currentRegion' = m.currentRegion
  /\ bgmAudio' = m.bgmAudio
  /\ seAudios' = m.seAudios
  /\ audios' = m.audios
  /\ fades' = m.fades
  /\ timers' = m.timers
  /\ cache' = m.cache
  /\ currentSize' = m.currentSize
  /\ pendingRequests' = m.pendingRequests
  /\ inFlight' = m.inFlight
  /\ blobCount' = m.blobCount
  /\ log' = m.log

\* the cells of the interpreter and of its collaborators, without the records
\* kept about the calls
progVars == <<scriptLines, currentLineIndex, jumpOnNextChoiceMarker, choiceMap, state,
              isLoading, currentRegion, bgmAudio, seAudios, audios, fades, timers, cache,
              currentSize, pendingRequests, inFlight, blobCount>>

\* ------------------------------------------------------------------- actions

Init ==
  /\ scriptLines = <<>>
  /\ currentLineIndex = 0
  /\ jumpOnNextChoiceMarker = NullIndex
  /\ choiceMap = <<>>
  /\ state = InitialState
  /\ isLoading = FALSE
  /\ currentRegion = "JP"
  /\ bgmAudio = NoAudio
  /\ seAudios = <<>>
  /\ audios = <<>>
  /\ fades = {}
  /\ timers = <<>>
  /\ cache = <<>>
  /\ currentSize = 0
  /\ pendingRequests = {}
  /\ inFlight = {}
  /\ blobCount = 0
  /\ quest \in Quests
  /\ call = [op |-> "none", choiceId |-> 0, ran |-> FALSE, armed |-> FALSE, threw |-> FALSE]
  /\ log = <<>>
  /\ loads = 0
  /\ armedHere = FALSE
  /\ fetches = <<>>
  /\ requests = [url \in CacheUrls |-> 0]
  /\ recency = <<>>
  /\ charaGraphId = 0
  /\ scriptData = NullData
  /\ svtLoading = FALSE
  /\ svtFetches = <<>>

\* the resource bounds of the model hold of the machine a handler leaves
WithinBounds(m) ==
  /\ Len(m.audios) <= MaxAudios
  /\ Len(m.timers) <= MaxTimers

Prompted(m) == \E i \in 1..Len(m.log) : m.log[i].type = "choice" /\ m.log[i].stop

\* what a call leaves behind: m is the machine at its end, ran tells whether it
\* got as far as processNextBlock, armed whether the marker it started with was
\* armed by a prompt of the script it ran on
Return(m, op, choiceId, ran) ==
  /\ WithinBounds(m)
  /\ Commit(m)
  /\ call' = [op |-> op, choiceId |-> choiceId, ran |-> ran,
              armed |-> armedHere /\ ~(op = "loadScript" /\ ran), threw |-> m.threw]
  /\ armedHere' = (m.jumpOnNextChoiceMarker # NullIndex
                   /\ (Prompted(m) \/ (armedHere /\ ~(op = "loadScript" /\ ran))))
  /\ loads' = IF op = "loadScript" THEN loads + 1 ELSE loads
  /\ UNCHANGED <<quest, loadVars, cacheVars, charaVars>>

\* a call that returns at its guard
Skip(op, choiceId) ==
  /\ call' = [op |-> op, choiceId |-> choiceId, ran |-> FALSE, armed |-> armedHere,
              threw |-> FALSE]
  /\ log' = <<>>
  /\ UNCHANGED <<progVars, quest, loads, armedHere, loadVars, cacheVars, charaVars>>

loadStart(m, region) ==
  [m EXCEPT !.isLoading = TRUE, !.state.isFinished = FALSE, !.currentRegion = region,
            !.state.playerName = defaultPlayerName(region)]

\* loadScript for a quest without a script at the requested phase and index
loadScriptNoUrl ==
  Return([loadStart(Machine, quest.region) EXCEPT !.isLoading = FALSE], "loadScript", 0, FALSE)

\* the end of loadScript: isLoading falls unless the first block threw
loaded(m2) == IF m2.threw THEN m2 ELSE [m2 EXCEPT !.isLoading = FALSE]

\* loadScript from the start of the fetch to the end of the first block;
\* content is "" when the fetch fails
loadScriptOf(content) ==
  Return(loaded(processNextBlock(preloadUpcomingAssets(
           [loadStart(Machine, quest.region) EXCEPT
              !.scriptLines = SelectSeq(splitLines(content, 1), LAMBDA l : trim(l) # ""),
              !.currentLineIndex = 0],
           0, quest.region, 3))),
         "loadScript", 0, TRUE)

loadScript ==
  /\ call.op # "unmount"
  /\ loads < MaxLoads
  /\ (loadScriptNoUrl \/ \E content \in quest.scripts \cup {""} : loadScriptOf(content))

\* after the block: the lookahead from the new cursor, unless the block threw
thenPreload(m1) ==
  IF m1.threw THEN m1
  ELSE preloadUpcomingAssets(m1, m1.currentLineIndex, m1.currentRegion, 3)

\* next without its guard on the finished flag
nextUnguarded ==
  Return(thenPreload(processNextBlock([Machine EXCEPT !.state.text = "",
                                                       !.state.choices = <<>>])),
         "next", 0, TRUE)

next ==
  /\ call.op # "unmount"
  /\ IF state.isFinished
     THEN Skip("next", 0)
     ELSE Return(thenPreload(processNextBlock([Machine EXCEPT !.state.text = "",
                                                               !.state.choices = <<>>])),
                 "next", 0, TRUE)

selectChoiceOf(choiceId) ==
  IF choiceId \in DOMAIN choiceMap
  THEN Return(thenPreload(processNextBlock([Machine EXCEPT
                !.currentLineIndex = choiceMap[choiceId],
                !.state.choices = <<>>, !.state.text = ""])),
              "selectChoice", choiceId, TRUE)
  ELSE Skip("selectChoice", choiceId)

selectChoice == call.op # "unmount" /\ \E choiceId \in ChoiceIds : selectChoiceOf(choiceId)

\* the network answers a preload with a blob of some size
preloadResolved ==
  \E url \in inFlight, size \in AssetSizes :
    /\ blobCount < MaxBlobs
    /\ inFlight' = inFlight \ {url}
    /\ IF size > MAX_SIZE
       THEN UNCHANGED <<cache, currentSize, pendingRequests, blobCount>>
       ELSE LET m1 == ensureSpace(Machine, size)
                entry == [url |-> url, objectUrl |-> "blob:" \o ToString(blobCount), size |-> size]
            IN  /\ cache' = IF cacheHas(m1, url)
                            THEN [m1.cache EXCEPT ![CHOOSE i \in 1..Len(m1.cache) : m1.cache[i].url = url] = entry]
                            ELSE Append(m1.cache, entry)
                /\ currentSize' = m1.currentSize + size
                /\ pendingRequests' = pendingRequests \ {url}
                /\ blobCount' = blobCount + 1
    /\ UNCHANGED <<scriptLines, currentLineIndex, jumpOnNextChoiceMarker, choiceMap, state,
                   isLoading, currentRegion, bgmAudio, seAudios, audios, fades, timers, quest,
                   call, log, loads, armedHere, loadVars, cacheVars, charaVars>>

preloadRejected ==
  \E url \in inFlight :
    /\ inFlight' = inFlight \ {url}
    /\ pendingRequests' = pendingRequests \ {url}
    /\ UNCHANGED <<scriptLines, currentLineIndex, jumpOnNextChoiceMarker, choiceMap, state,
                   isLoading, currentRegion, bgmAudio, seAudios, audios, fades, timers, cache,
                   currentSize, blobCount, quest, call, log, loads, armedHere, loadVars,
                   cacheVars, charaVars>>

audioUnchanged == UNCHANGED <<scriptLines, currentLineIndex, jumpOnNextChoiceMarker, choiceMap,
                              state, isLoading, currentRegion, bgmAudio, cache, currentSize,
                              pendingRequests, inFlight, blobCount, quest, call, log, loads,
                              armedHere, loadVars, cacheVars, charaVars>>

\* a frame callback of a fade loop: the fade is over, or it is half way
fadeFrame ==
  \E f \in fades :
    /\ \/ /\ ~f.duration.nan /\ VolumeOk(f.targetVolume)
          /\ audios' = [audios EXCEPT ![f.audio].volume = f.targetVolume.v,
                                      ![f.audio].paused = @ \/ f.targetVolume.v = 0]
          /\ fades' = fades \ {f}
       \/ /\ ~f.duration.nan /\ VolumeOk(f.targetVolume)
          /\ audios' = [audios EXCEPT ![f.audio].volume = (f.startVolume + f.targetVolume.v) \div 2]
          /\ fades' = fades
       \/ /\ f.duration.nan \/ ~VolumeOk(f.targetVolume)
          /\ audios' = audios
          /\ fades' = fades \ {f}
    /\ UNCHANGED <<seAudios, timers>>
    /\ audioUnchanged

\* the delayed removal scheduled by stopSe; the timer holds the id and, for
\* reference, the instance stopSe faded
timerFiredOf(i) ==
  /\ seAudios' = [k \in DOMAIN seAudios \ {timers[i].id} |-> seAudios[k]]
  /\ timers' = SubSeq(timers, 1, i - 1) \o SubSeq(timers, i + 1, Len(timers))
  /\ UNCHANGED <<audios, fades>>
  /\ audioUnchanged

timerFired == \E i \in 1..Len(timers) : timerFiredOf(i)

\* a sound effect plays to its end: onended
seEndedOf(a) ==
  /\ audios[a].kind = "se" /\ ~audios[a].paused
  /\ audios' = [audios EXCEPT ![a].paused = TRUE]
  /\ seAudios' = [k \in DOMAIN seAudios \ {audios[a].id} |-> seAudios[k]]
  /\ UNCHANGED <<fades, timers>>
  /\ audioUnchanged

seEnded == \E a \in 1..Len(audios) : seEndedOf(a)

\* onUnmounted: the view is gone and its handlers with it
unmount ==
  /\ call.op # "unmount"
  /\ Commit([stopAllSound(Machine, Num(0)) EXCEPT !.log = <<>>])
  /\ call' = [op |-> "unmount", choiceId |-> 0, ran |-> FALSE, armed |-> armedHere,
              threw |-> FALSE]
  /\ UNCHANGED <<quest, loads, armedHere, loadVars, cacheVars, charaVars>>

Next ==
  \/ loadScript
  \/ next
  \/ selectChoice
  \/ preloadResolved
  \/ preloadRejected
  \/ fadeFrame
  \/ timerFired
  \/ seEnded
  \/ unmount

Spec == Init /\ [][Next]_vars

\* --------------------------------------------------------- overlapping loads
\* loadScript is asynchronous: it returns to the event loop at the fetch of the
\* script text, and the route watcher may start another load before the text
\* is there.  fetches holds one record per load started.

MaxOverlap == 2

\* the lines loadScript keeps of the text fetched
linesOf(content) == SelectSeq(splitLines(content, 1), LAMBDA l : trim(l) # "")

\* loadScript up to the await of fetchScriptContent
loadBegan ==
  /\ Len(fetches) < MaxOverlap
  /\ \E content \in quest.scripts \cup {""} :
       fetches' = Append(fetches, [content |-> content, done |-> FALSE])
  /\ Commit(loadStart(Machine, quest.region))
  /\ call' = [op |-> "loadScript", choiceId |-> 0, ran |-> FALSE, armed |-> armedHere,
              threw |-> FALSE]
  /\ loads' = loads + 1
  /\ UNCHANGED <<quest, armedHere, cacheVars, charaVars>>

\* a load resumes with the text fetched: loadScript after the await
resumeLoad(m, content, region) ==
  loaded(processNextBlock(preloadUpcomingAssets(
           [m EXCEPT !.scriptLines = linesOf(content), !.currentLineIndex = 0],
           0, region, 3)))

\* what the resumed load leaves behind: m is the machine at its end
loadResumed(k, m) ==
  /\ WithinBounds(m)
  /\ Commit(m)
  /\ call' = [op |-> "loadScript", choiceId |-> 0, ran |-> TRUE, armed |-> FALSE,
              threw |-> m.threw]
  /\ armedHere' = (m.jumpOnNextChoiceMarker # NullIndex /\ Prompted(m))
  /\ fetches' = [fetches EXCEPT ![k].done = TRUE]
  /\ UNCHANGED <<quest, loads, cacheVars, charaVars>>

loadFetchedOf(k) ==
  /\ ~fetches[k].done
  /\ loadResumed(k, resumeLoad(Machine, fetches[k].content, quest.region))

loadFetched == \E k \in 1..Len(fetches) : loadFetchedOf(k)

NextLoad ==
  \/ loadBegan
  \/ loadFetched
  \/ next

LoadSpec == Init /\ [][NextLoad]_vars

\* ------------------------------------------------- the ResourceManager alone
\* The exported resourceManager driven through its public methods by any
\* client: preload, getResolvedUrl and releaseAll, with the network answering
\* the requests in any order.  requests counts, per URL, the axios requests not
\* yet answered; releaseAll forgets the pending promises but the requests stay
\* on the wire.  recency is the order of last use of the cached URLs.

MaxInFlight == 2

MaxObjectUrls == 4

\* url becomes the most recently used
used(order, url) == Append(SelectSeq(order, LAMBDA u : u # url), url)

\* the order of use of the URLs still in the cache of m
usedIn(m, order) == SelectSeq(order, LAMBDA u : cacheHas(m, u))

rmUnchanged == UNCHANGED <<scriptLines, currentLineIndex, jumpOnNextChoiceMarker, choiceMap,
                           state, isLoading, currentRegion, bgmAudio, seAudios, audios, fades,
                           timers, quest, call, log, loads, armedHere, loadVars, charaVars>>

\* preload(url), up to the request being sent
rmPreloadOf(url) ==
  /\ (~cacheHas(Machine, url) /\ url \notin pendingRequests) => requests[url] < MaxInFlight
  /\ cache' = preload(Machine, url).cache
  /\ pendingRequests' = preload(Machine, url).pendingRequests
  /\ inFlight' = preload(Machine, url).inFlight
  /\ requests' = IF ~cacheHas(Machine, url) /\ url \notin pendingRequests
                 THEN [requests EXCEPT ![url] = @ + 1]
                 ELSE requests
  /\ recency' = IF cacheHas(Machine, url) THEN used(recency, url) ELSE recency
  /\ UNCHANGED <<currentSize, blobCount>>
  /\ rmUnchanged

rmPreload == \E url \in CacheUrls : rmPreloadOf(url)

rmGetResolvedUrlOf(url) ==
  /\ cache' = getResolvedUrlTouch(Machine, url).cache
  /\ recency' = IF cacheHas(Machine, url) THEN used(recency, url) ELSE recency
  /\ UNCHANGED <<currentSize, pendingRequests, inFlight, blobCount, requests>>
  /\ rmUnchanged

rmGetResolvedUrl == \E url \in CacheUrls : rmGetResolvedUrlOf(url)

\* one request for url is answered
answered(url) ==
  /\ requests[url] > 0
  /\ requests' = [requests EXCEPT ![url] = @ - 1]
  /\ inFlight' = IF requests[url] = 1 THEN inFlight \ {url} ELSE inFlight

\* the then-callback of preload, with the blob of the response
rmResolvedOf(url) ==
  /\ answered(url)
  /\ IF blobSize(url) > MAX_SIZE
     THEN UNCHANGED <<cache, currentSize, pendingRequests, blobCount, recency>>
     ELSE /\ blobCount < MaxObjectUrls
          /\ cache' = cacheSet(ensureSpace(Machine, blobSize(url)).cache,
                               [url |-> url, objectUrl |-> "blob:" \o ToString(blobCount),
                                size |-> blobSize(url)])
          /\ currentSize' = ensureSpace(Machine, blobSize(url)).currentSize + blobSize(url)
          /\ pendingRequests' = pendingRequests \ {url}
          /\ blobCount' = blobCount + 1
          /\ recency' = used(usedIn(ensureSpace(Machine, blobSize(url)), recency), url)
  /\ rmUnchanged

rmResolved == \E url \in CacheUrls : rmResolvedOf(url)

\* the catch-callback of preload
rmRejectedOf(url) ==
  /\ answered(url)
  /\ pendingRequests' = pendingRequests \ {url}
  /\ UNCHANGED <<cache, currentSize, blobCount, recency>>
  /\ rmUnchanged

rmRejected == \E url \in CacheUrls : rmRejectedOf(url)

releaseAll ==
  /\ cache' = <<>>
  /\ currentSize' = 0
  /\ pendingRequests' = {}
  /\ recency' = <<>>
  /\ UNCHANGED <<inFlight, blobCount, requests>>
  /\ rmUnchanged

NextCache ==
  \/ rmPreload
  \/ rmGetResolvedUrl
  \/ rmResolved
  \/ rmRejected
  \/ releaseAll

CacheSpec == Init /\ [][NextCache]_vars

\* ------------------------------------------------- the Character component
\* The component fetches the figure's image and script metadata for its
\* charaGraphId prop when mounted and whenever the prop changes.  svtFetches
\* holds the fetches not yet settled: the id each was started for and whether
\* the prop has changed since.  scriptData is the id whose metadata is held.
\* The component of Init was mounted with a falsy id, so that onMounted's
\* fetchScript returned at its guard.

CharaIds == {0, 1, 2}

MaxSvtFetches == 4

charaUnchanged == UNCHANGED <<progVars, quest, call, log, loads, armedHere, loadVars, cacheVars>>

without(fs, k) == SubSeq(fs, 1, k - 1) \o SubSeq(fs, k + 1, Len(fs))

\* the prop changes to id: the watcher calls fetchScript
charaGraphIdChanged ==
  \E id \in CharaIds \ {charaGraphId} :
    /\ charaGraphId' = id
    /\ IF id = 0
       THEN /\ svtFetches' = [k \in 1..Len(svtFetches) |-> [svtFetches[k] EXCEPT !.superseded = TRUE]]
            /\ UNCHANGED <<scriptData, svtLoading>>
       ELSE /\ Len(svtFetches) < MaxSvtFetches
            /\ scriptData' = NullData
            /\ svtLoading' = TRUE
            /\ svtFetches' = Append([k \in 1..Len(svtFetches) |->
                                       [svtFetches[k] EXCEPT !.superseded = TRUE]],
                                    [id |-> id, superseded |-> FALSE])
    /\ charaUnchanged

\* fetchScript after the await: the image has loaded and getSvtScript has
\* answered, with metadata or without
svtResolvedOf(k, found) ==
  /\ svtFetches' = without(svtFetches, k)
  /\ IF charaGraphId # svtFetches[k].id
     THEN UNCHANGED <<scriptData, svtLoading>>
     ELSE /\ scriptData' = IF found THEN svtFetches[k].id ELSE scriptData
          /\ svtLoading' = FALSE
  /\ UNCHANGED charaGraphId
  /\ charaUnchanged

svtResolved == \E k \in 1..Len(svtFetches), found \in BOOLEAN : svtResolvedOf(k, found)

\* the image or the request failed: catch and finally
svtRejected ==
  \E k \in 1..Len(svtFetches) :
    /\ svtFetches' = without(svtFetches, k)
    /\ svtLoading' = (svtLoading /\ charaGraphId # svtFetches[k].id)
    /\ UNCHANGED <<charaGraphId, scriptData>>
    /\ charaUnchanged

NextChara ==
  \/ charaGraphIdChanged
  \/ svtResolved
  \/ svtRejected

CharaSpec == Init /\ [][NextChara]_vars

\* ------------------------------------------------------------------ claims

\* the iterations of the last call that met a Choice line with the marker armed
JumpSteps == {i \in 1..Len(log) : log[i].type = "choice" /\ log[i].markerBefore # NullIndex}

\* C2: a Choice line met with the marker armed never re-prompts: the choices
\* are left as they were (empty inside next and selectChoice), the loop does
\* not pause, the cursor goes to the armed index, the marker is disarmed and
\* the loop goes on from that index; a marker armed by a prompt of the loaded
\* script points right after that block's ChoiceBlockEnd line; and a
\* ChoiceBlockEnd line leaves the marker disarmed.
C2_ArmedChoiceJumps ==
  /\ \A i \in JumpSteps :
       /\ log[i].choicesAfter = log[i].choicesBefore
       /\ (call.op \in {"next", "selectChoice"} => log[i].choicesAfter = <<>>)
       /\ ~log[i].stop
       /\ log[i].indexAfter = log[i].markerBefore
       /\ log[i].markerAfter = NullIndex
       /\ IF i < Len(log) THEN log[i + 1].index = log[i].markerBefore
                          ELSE currentLineIndex = log[i].markerBefore
       /\ (call.armed => /\ log[i].markerBefore \in 1..Len(scriptLines)
                         /\ trim(scriptLines[log[i].markerBefore]) = "?!")
  /\ \A i \in 1..Len(log) : log[i].type = "choiceEnd" => log[i].markerAfter = NullIndex
  /\ (armedHere => /\ jumpOnNextChoiceMarker \in 1..Len(scriptLines)
                   /\ trim(scriptLines[jumpOnNextChoiceMarker]) = "?!")

\* a branch chosen at a prompt ran into the next Choice line and went on after
\* the block
C2_Witness ==
  /\ call.op = "selectChoice" /\ call.armed
  /\ \E i \in JumpSteps : i < Len(log) /\ log[i + 1].type = "dialogue"

\* C5: next on a finished interpreter changes no cell of the interpreter or of
\* its collaborators, runs no line, starts no preload and does not throw
C5_NextOnFinishedIsNoOp ==
  [][(state.isFinished /\ next) =>
       /\ UNCHANGED progVars
       /\ log' = <<>>
       /\ ~call'.ran /\ ~call'.threw]_vars

\* next has returned at its guard
C5_Witness == state.isFinished /\ call.op = "next" /\ ~call.ran /\ state.text # ""

\* the Choice lines and the ChoiceBlockEnd lines of a script, by position
ChoiceLines(lines) == {i \in 1..Len(lines) : IsChoiceLine(trim(lines[i]))}

EndLines(lines) == {i \in 1..Len(lines) : trim(lines[i]) = "?!"}

TokenAt(lines, i) == parseTable[<<lines[i], state.playerName, state.playerGender>>]

\* one choice block: Choice lines with distinct ids, closed by one ChoiceBlockEnd
WellFormed(lines) ==
  /\ ChoiceLines(lines) # {}
  /\ Cardinality(EndLines(lines)) = 1
  /\ \A c \in ChoiceLines(lines) : \A e \in EndLines(lines) : c < e
  /\ \A c, d \in ChoiceLines(lines) :
       c # d => TokenAt(lines, c).choiceId # TokenAt(lines, d).choiceId

NthChoiceLine(lines, n) ==
  CHOOSE c \in ChoiceLines(lines) : Cardinality({d \in ChoiceLines(lines) : d < c}) = n - 1

\* the options of the block in source order
Options(lines) ==
  [n \in 1..Cardinality(ChoiceLines(lines)) |->
     [id |-> TokenAt(lines, NthChoiceLine(lines, n)).choiceId.v,
      text |-> TokenAt(lines, NthChoiceLine(lines, n)).text]]

\* the lines of the branch opened by the Choice line at c
BranchLines(lines, c) ==
  {j \in (c + 1)..Len(lines) :
     \A b \in ChoiceLines(lines) \cup EndLines(lines) : ~(c < b /\ b <= j)}

\* C1: on a script with one well-formed choice block, the first Choice line
\* pauses the loop with every option listed in source order, and
\* selectChoice(k) starts at the first line of branch k and runs no line of
\* another branch.
C1_ChoiceRoundTrip ==
  WellFormed(scriptLines) =>
    /\ \A i \in 1..Len(log) :
         log[i].index + 1 = NthChoiceLine(scriptLines, 1) =>
           log[i].stop /\ log[i].choicesAfter = Options(scriptLines)
    /\ \A c \in ChoiceLines(scriptLines) :
         (call.op = "selectChoice" /\ call.ran
          /\ call.choiceId = TokenAt(scriptLines, c).choiceId.v) =>
           /\ log # <<>> /\ log[1].index = c
           /\ \A i \in 1..Len(log) : \A d \in ChoiceLines(scriptLines) \ {c} :
                log[i].index + 1 \notin BranchLines(scriptLines, d)

\* the machine of a newly constructed interpreter
NewMachine ==
  [scriptLines |-> <<>>, currentLineIndex |-> 0, jumpOnNextChoiceMarker |-> NullIndex,
   choiceMap |-> <<>>, state |-> InitialState, isLoading |-> FALSE, currentRegion |-> "JP",
   bgmAudio |-> NoAudio, seAudios |-> <<>>, audios |-> <<>>, fades |-> {}, timers |-> <<>>,
   cache |-> <<>>, currentSize |-> 0, pendingRequests |-> {}, inFlight |-> {},
   blobCount |-> 0, stop |-> FALSE, threw |-> FALSE, log |-> <<>>]

\* what loadScript leaves when a new interpreter loads the same lines
FreshLoad(lines, region) ==
  loaded(processNextBlock(preloadUpcomingAssets(
    [loadStart(NewMachine, region) EXCEPT !.scriptLines = lines], 0, region, 3)))

\* C3: after a load, the cursor, the marker, the choice map and the
\* presentation fields the script writes without the asset cache or the audio
\* channel (characters, active character, text, speaker, choices, finished)
\* are those a new interpreter has after loading the same lines.
C3_LoadResetsAllState ==
  (call.op = "loadScript" /\ call.ran) =>
    /\ currentLineIndex = FreshLoad(scriptLines, currentRegion).currentLineIndex
    /\ jumpOnNextChoiceMarker = FreshLoad(scriptLines, currentRegion).jumpOnNextChoiceMarker
    /\ choiceMap = FreshLoad(scriptLines, currentRegion).choiceMap
    /\ \A f \in {"characters", "activeCharacter", "text", "speaker", "choices", "isFinished"} :
         state[f] = FreshLoad(scriptLines, currentRegion).state[f]

\* C4: in a finished state no next and no selectChoice changes the cursor, the
\* marker or the presentation state.
C4_FinishedIsTerminal ==
  [][(state.isFinished /\ (next \/ selectChoice)) =>
       UNCHANGED <<currentLineIndex, jumpOnNextChoiceMarker, state>>]_vars

\* C6: the active character, when there is one, is stored under its code and
\* is visible.
C6_ActiveCharacterIsVisible ==
  state.activeCharacter # NullChar =>
    /\ hasChar(state.characters, state.activeCharacter[1].code)
    /\ state.characters[charIndex(state.characters, state.activeCharacter[1].code)].visible

\* C7: no call of loadScript, next or selectChoice ends by throwing.
C7_NeverThrows == ~call.threw

\* C8: a call that ran the loop stopped on its last line and on no line
\* before it, that line being a waitClick, an end or a Choice line, or else it
\* ran to the end of the lines.
C8_RunsToNextPause ==
  call.ran =>
    /\ \A i \in 1..Len(log) :
         log[i].stop => /\ i = Len(log)
                        /\ \/ log[i].type = "choice"
                           \/ log[i].commandName \in {"waitClick", "end"}
    /\ \/ log # <<>> /\ log[Len(log)].stop
       \/ currentLineIndex >= Len(scriptLines)

\* C9: after a call that ran the loop, the cursor at the end of the lines
\* means the finished flag is set.
C9_EndOfLinesFinishes ==
  (call.ran /\ currentLineIndex >= Len(scriptLines)) => state.isFinished

EndToEnd == <<"[scene 001]", "[bgm bgm01 1.0]", "Hello", "[k]", "[end]">>

\* C10: loading the five-line script leaves a background, bgm01, the text
\* Hello and the finished flag unset; the next call after it finishes.
C10_EndToEnd ==
  scriptLines = EndToEnd =>
    /\ (call.op = "loadScript" /\ call.ran) =>
         /\ state.background # "null" /\ state.bgm = "bgm01"
         /\ state.text = "Hello" /\ ~state.isFinished
    /\ (call.op = "next" /\ call.ran /\ log # <<>> /\ log[1].index = 4) => state.isFinished

\* the iterations of the last call that executed the directive of that name
Steps(name) == {i \in 1..Len(log) : log[i].type = "command" /\ log[i].commandName = name}

CodeOf(i) == log[i].cmd.args[1]

\* the Character stored under a code in a snapshot
CharAt(cells, code) == cells.state.characters[charIndex(cells.state.characters, code)]

ActiveCode(cells) ==
  IF cells.state.activeCharacter = NullChar THEN "" ELSE cells.state.activeCharacter[1].code

\* C11: after a bgm directive with id X has run to its end, the current
\* background-music identifier is X, whatever bgm and bgmStop directives ran
\* before it.
C11_BgmSetsCurrentTrack ==
  \A i \in Steps("bgm") :
    (Len(log[i].cmd.args) > 0 /\ ~log[i].threw) => log[i].after.state.bgm = CodeOf(i)

\* the Characters of a snapshot that carry the name and are visible
VisibleNamed(cells, name) ==
  {j \in 1..Len(cells.state.characters) :
     cells.state.characters[j].name = name /\ cells.state.characters[j].visible}

\* C12: a speaker line naming N makes a visible Character named N the active
\* one, as a copy with its code, whenever there is one; otherwise it leaves
\* the active character as it was.
C12_SpeakerActivatesVisible ==
  \A i \in Steps("speaker") :
    IF VisibleNamed(log[i].before, log[i].cmd.speaker) # {}
    THEN \E j \in VisibleNamed(log[i].before, log[i].cmd.speaker) :
           log[i].after.state.activeCharacter = activeCopy(log[i].before.state.characters[j])
    ELSE log[i].after.state.activeCharacter = log[i].before.state.activeCharacter

IsNumeral(str) == Len(str) > 0 /\ Chars(str) \subseteq DigitChars

\* a charaSet line with a code, a numeral id and a numeral ascension
WellFormedCharaSet(cmd) ==
  /\ Len(cmd.args) >= 3
  /\ cmd.args[1] # "" /\ IsNumeral(cmd.args[2]) /\ IsNumeral(cmd.args[3])

\* C13: a well-formed charaSet line stores, under its code, the Character with
\* its id, its ascension, the remaining arguments joined by single spaces as
\* name, face 0 and not visible; a Character already stored under the code is
\* overwritten and every other Character is left as it was.
C13_CharaSetStores ==
  \A i \in Steps("charaSet") :
    WellFormedCharaSet(log[i].cmd) =>
      /\ hasChar(log[i].after.state.characters, CodeOf(i))
      /\ CharAt(log[i].after, CodeOf(i)) =
           [code |-> CodeOf(i), id |-> Num(DigitsVal(log[i].cmd.args[2], 0)),
            ascension |-> Num(DigitsVal(log[i].cmd.args[3], 0)),
            name |-> join(SubSeq(log[i].cmd.args, 4, Len(log[i].cmd.args)), " "),
            face |-> Num(0), visible |-> FALSE]
      /\ Cardinality({j \in 1..Len(log[i].after.state.characters) :
                        log[i].after.state.characters[j].code = CodeOf(i)}) = 1
      /\ \A j \in 1..Len(log[i].before.state.characters) :
           log[i].before.state.characters[j].code # CodeOf(i) =>
             log[i].after.state.characters[j] = log[i].before.state.characters[j]
      /\ Len(log[i].after.state.characters) =
           Len(log[i].before.state.characters)
           + (IF hasChar(log[i].before.state.characters, CodeOf(i)) THEN 0 ELSE 1)

\* a charaSet with a two-word name replaced a visible Character while another
\* Character was stored
C13_Witness ==
  \E i \in Steps("charaSet") :
    /\ WellFormedCharaSet(log[i].cmd) /\ Len(log[i].cmd.args) = 5
    /\ hasChar(log[i].before.state.characters, CodeOf(i))
    /\ CharAt(log[i].before, CodeOf(i)) # CharAt(log[i].after, CodeOf(i))
    /\ Len(log[i].before.state.characters) >= 2

\* C14: after a charaFadein of a stored Character, that Character is visible
\* and is the active one, whichever was active before.
C14_FadeinActivates ==
  \A i \in Steps("charaFadein") :
    (Len(log[i].cmd.args) >= 1 /\ hasChar(log[i].before.state.characters, CodeOf(i))) =>
      /\ ActiveCode(log[i].after) = CodeOf(i)
      /\ log[i].after.state.activeCharacter = activeCopy(CharAt(log[i].after, CodeOf(i)))
      /\ CharAt(log[i].after, CodeOf(i)).visible

\* a charaFadein of a hidden Character ran while another one was active
C14_Witness ==
  \E i \in Steps("charaFadein") :
    /\ Len(log[i].cmd.args) >= 1 /\ hasChar(log[i].before.state.characters, CodeOf(i))
    /\ ~CharAt(log[i].before, CodeOf(i)).visible
    /\ ActiveCode(log[i].before) \notin {"", CodeOf(i)}

\* C15: after a charaFadeout of a code, the Character stored under it is not
\* visible; the active character is cleared when it was that one and is left
\* as it was otherwise.
C15_FadeoutHides ==
  \A i \in Steps("charaFadeout") :
    (Len(log[i].cmd.args) >= 1 /\ CodeOf(i) # "") =>
      /\ hasChar(log[i].before.state.characters, CodeOf(i)) =>
           /\ hasChar(log[i].after.state.characters, CodeOf(i))
           /\ ~CharAt(log[i].after, CodeOf(i)).visible
      /\ log[i].after.state.activeCharacter =
           IF ActiveCode(log[i].before) = CodeOf(i) THEN NullChar
           ELSE log[i].before.state.activeCharacter

\* one call faded out the active character, and faded out a visible Character
\* while another one was active
C15_Witness ==
  /\ \E i \in Steps("charaFadeout") :
       /\ Len(log[i].cmd.args) >= 1 /\ ActiveCode(log[i].before) = CodeOf(i)
       /\ CharAt(log[i].before, CodeOf(i)).visible
       /\ log[i].after.state.activeCharacter = NullChar
  /\ \E i \in Steps("charaFadeout") :
       /\ Len(log[i].cmd.args) >= 1 /\ hasChar(log[i].before.state.characters, CodeOf(i))
       /\ CharAt(log[i].before, CodeOf(i)).visible
       /\ ActiveCode(log[i].before) \notin {"", CodeOf(i)}
       /\ log[i].after.state.activeCharacter = log[i].before.state.activeCharacter

\* the snapshot of an iteration that did nothing but move the cursor on
Untouched(i) == log[i].after = [log[i].before EXCEPT !.currentLineIndex = @ + 1]

\* the loop went on with the line after that of iteration i
WentOn(i) ==
  /\ ~log[i].stop /\ ~log[i].threw
  /\ IF i < Len(log) THEN log[i + 1].index = log[i].index + 1
                     ELSE log[i].index + 1 = Len(scriptLines)

\* the iterations that met a Choice line with the marker disarmed and no
\* ChoiceBlockEnd line anywhere after it
MalformedSteps ==
  {i \in 1..Len(log) :
     /\ log[i].type = "choice" /\ log[i].markerBefore = NullIndex
     /\ \A j \in (log[i].index + 2)..Len(scriptLines) : trim(scriptLines[j]) # "?!"}

\* C16: a Choice line met with the marker disarmed and no ChoiceBlockEnd after
\* it establishes no choice state (the choices stay as they were, empty inside
\* next and selectChoice, the marker stays disarmed, the choice map is kept),
\* does not pause the loop, and the loop goes on with the following line.
C16_MalformedBlockFallsThrough ==
  \A i \in MalformedSteps :
    /\ log[i].after.state.choices = log[i].before.state.choices
    /\ (call.op \in {"next", "selectChoice"} => log[i].after.state.choices = <<>>)
    /\ log[i].after.jumpOnNextChoiceMarker = NullIndex
    /\ log[i].after.choiceMap = log[i].before.choiceMap
    /\ Untouched(i)
    /\ WentOn(i)

\* an unterminated Choice line was passed and the line after it ran as text
C16_Witness ==
  \E i \in MalformedSteps :
    /\ log[i].cmd.text # ""
    /\ i < Len(log) /\ log[i + 1].type = "dialogue"
    /\ state.text # "" /\ state.choices = <<>>

\* a directive that lacks a required argument, or names a code no Character
\* is stored under
Ignored(i) ==
  LET name  == log[i].commandName
      args  == log[i].cmd.args
      chars == log[i].before.state.characters
  IN  /\ log[i].type = "command"
      /\ \/ name = "charaSet" /\ Len(args) < 3
         \/ name = "charaFace" /\ Len(args) < 2
         \/ name \in {"charaFadein", "charaFadeout", "scene", "bgm", "se"} /\ Len(args) = 0
         \/ name = "charaFace" /\ Len(args) >= 2 /\ ~hasChar(chars, args[1])
         \/ name \in {"charaFadein", "charaFadeout"} /\ Len(args) >= 1 /\ ~hasChar(chars, args[1])

\* C17: a directive with a missing required argument or an unknown character
\* code changes no cell at all (no Character is created, the Characters and
\* the active character are kept), and the loop goes on with the next line.
C17_IgnoredDirectiveChangesNothing ==
  \A i \in 1..Len(log) : Ignored(i) => Untouched(i) /\ WentOn(i)

\* with Characters stored, one call passed a charaFadein of an unknown code, a
\* charaSet with two arguments and a bgm without arguments
C17_Witness ==
  /\ \E i \in Steps("charaFadein") :
       /\ Ignored(i) /\ Len(log[i].cmd.args) >= 1
       /\ log[i].before.state.characters # <<>>
  /\ \E i \in Steps("charaSet") : Ignored(i) /\ Len(log[i].cmd.args) = 2
  /\ \E i \in Steps("bgm") : Ignored(i)

\* a directive whose numeric argument is not a number
Unparsed(cmd) ==
  /\ cmd.type = "command"
  /\ \/ /\ cmd.commandName = "charaSet" /\ Len(cmd.args) >= 3
        /\ parseInt(cmd.args[2]).nan \/ parseInt(cmd.args[3]).nan
     \/ cmd.commandName = "charaFace" /\ Len(cmd.args) >= 2 /\ parseInt(cmd.args[2]).nan
     \/ /\ cmd.commandName \in {"bgm", "bgmStop", "seStop"} /\ Len(cmd.args) >= 2
        /\ parseFloat(cmd.args[2]).nan
     \/ /\ cmd.commandName = "soundStopAllFade" /\ Len(cmd.args) >= 1
        /\ parseFloat(cmd.args[1]).nan

\* C18: a directive whose numeric argument is not a number is skipped with no
\* cell changed, and no Character ever holds a not-a-number id, ascension or
\* face.
C18_UnparsedNumberIsSkipped ==
  /\ \A i \in 1..Len(log) : Unparsed(log[i].cmd) => Untouched(i) /\ ~log[i].threw
  /\ \A j \in 1..Len(state.characters) :
       /\ ~state.characters[j].id.nan
       /\ ~state.characters[j].ascension.nan
       /\ ~state.characters[j].face.nan

\* the expanded Dialogue lines among the iterations l, in execution order
DialogueTexts(l, playerName, playerGender) ==
  LET said == SelectSeq(l, LAMBDA e : e.type = "dialogue")
  IN  [k \in 1..Len(said) |-> processText(said[k].cmd.raw, playerName, playerGender)]

\* the text a block leaves when it starts from the text start
Accumulated(start, texts) == join((IF start = "" THEN <<>> ELSE <<start>>) \o texts, "\n")

\* a step that is a call that got as far as the loop
RanCall == call'.ran /\ (call' # call \/ log' # log \/ loads' # loads)

\* C19: a call of next or selectChoice that resumes the loop starts it with
\* the text and the choices cleared, and every call leaves as text the text
\* the loop started from followed by the expanded Dialogue lines it executed,
\* in order, joined by single newlines; no other step changes the text.
C19_DialogueAccumulates ==
  [][IF RanCall
     THEN /\ state'.text =
               Accumulated(IF call'.op = "loadScript" THEN state.text ELSE "",
                           DialogueTexts(log', state'.playerName, state'.playerGender))
          /\ (call'.op \in {"next", "selectChoice"} /\ log' # <<>>) =>
               /\ log'[1].before.state.text = ""
               /\ log'[1].before.state.choices = <<>>
     ELSE state'.text = state.text]_vars

\* a selectChoice left a text of two Dialogue lines
C19_Witness ==
  /\ call.op = "selectChoice" /\ call.ran
  /\ Len(SelectSeq(log, LAMBDA e : e.type = "dialogue")) = 2
  /\ state.text = log[1].cmd.text \o "\n" \o log[Len(log)].cmd.text
  /\ log[1].type = "dialogue" /\ log[Len(log)].type = "dialogue"

\* the cells of the interpreter and of the presentation state
InterpreterCells(m) ==
  [scriptLines |-> m.scriptLines, currentLineIndex |-> m.currentLineIndex,
   jumpOnNextChoiceMarker |-> m.jumpOnNextChoiceMarker, choiceMap |-> m.choiceMap,
   state |-> m.state]

\* what the interpreter does next, as far as the lookahead could matter: the
\* cells it leaves, the audio channels, and whether it throws
Behaviour(m) ==
  [cells |-> InterpreterCells(m), threw |-> m.threw, bgmAudio |-> m.bgmAudio,
   seAudios |-> m.seAudios, audios |-> m.audios, fades |-> m.fades, timers |-> m.timers]

\* the lookahead left the interpreter's cells alone, once and twice over, and
\* the block run after it is the block run without it
ReadOnly(m, scanned, startIndex, blockLimit, base) ==
  /\ InterpreterCells(scanned) = InterpreterCells(m)
  /\ InterpreterCells(preloadUpcomingAssets(scanned, startIndex, m.currentRegion, blockLimit))
       = InterpreterCells(m)
  /\ Behaviour(processNextBlock(scanned)) = base

BlockLimits == {1, MaxBlockLimit}

ReadOnlyFrom(m, base) ==
  \A startIndex \in 0..Len(m.scriptLines), blockLimit \in BlockLimits :
    ReadOnly(m, preloadUpcomingAssets(m, startIndex, m.currentRegion, blockLimit),
             startIndex, blockLimit, base)

Playing == {a \in 1..Len(audios) : ~audios[a].paused}

\* C23: once the teardown handler has run, no audio element the audio manager
\* created is playing: not the background music, not any sound-effect instance
\* ever started (an earlier instance of a replayed id included), not an element
\* that was being faded.
C23_TeardownSilences ==
  call.op = "unmount" => Playing = {}

\* the background-music elements that are playing
PlayingBgm(cells) ==
  {a \in 1..Len(cells.audios) : cells.audios[a].kind = "bgm" /\ ~cells.audios[a].paused}

\* the track is the current one and its element is still playing
CurrentAndPlaying(cells, id) ==
  /\ cells.state.bgm = id
  /\ cells.bgmAudio # NoAudio
  /\ cells.audios[cells.bgmAudio].id = id
  /\ ~cells.audios[cells.bgmAudio].paused

\* C24: at most one background-music element is playing at any time, and a
\* bgm directive for the track that is current and still playing creates no
\* new element.
C24_OneBgmElement ==
  /\ Cardinality(PlayingBgm(Cells(Machine))) <= 1
  /\ \A i \in Steps("bgm") :
       (Len(log[i].cmd.args) > 0 /\ CurrentAndPlaying(log[i].before, CodeOf(i)))
         => Len(log[i].after.audios) = Len(log[i].before.audios)

\* C25: playSe starts a fresh instance and tracks it under its id, and the
\* natural completion of one instance leaves the tracking entry of every other
\* instance in place, a newer instance of the same id included.
C25_CompletionRemovesItself ==
  [][\A a \in 1..Len(audios) :
       seEndedOf(a) =>
         \A k \in DOMAIN seAudios :
           seAudios[k] # a => (k \in DOMAIN seAudios' /\ seAudios'[k] = seAudios[k])]_vars

\* C26: the delayed removal scheduled by stopSe removes the instance stopSe
\* faded and no other: an instance started under the same id in between stays
\* tracked.
C26_DelayedRemovalSparesFresh ==
  [][\A i \in 1..Len(timers) :
       timerFiredOf(i) =>
         \A k \in DOMAIN seAudios :
           seAudios[k] # timers[i].audio
             => (k \in DOMAIN seAudios' /\ seAudios'[k] = seAudios[k])]_vars

\* the machine with nothing cached and nothing requested
Unloaded(m) ==
  [m EXCEPT !.cache = <<>>, !.currentSize = 0, !.pendingRequests = {}, !.inFlight = {}]

\* the assets a lookahead scan from startIndex requests
Requested(startIndex, blockLimit) ==
  preloadUpcomingAssets(Unloaded(Machine), startIndex, currentRegion, blockLimit).pendingRequests

\* the shape of the line at a 0-based index: its command type, and its name
\* when it is a directive
Shape(j) ==
  IF scriptLines[j + 1] = "" THEN [type |-> "empty", name |-> ""]
  ELSE LET cmd == Parse(Machine, scriptLines[j + 1])
       IN  [type |-> cmd.type, name |-> IF cmd.type = "command" THEN cmd.commandName ELSE ""]

IsDirective(j, name) == Shape(j).type = "command" /\ Shape(j).name = name

\* the assets the directive at index j names
AssetsAt(j) ==
  IF Shape(j).type = "command"
  THEN preloadCommand(Unloaded(Machine), Parse(Machine, scriptLines[j + 1]),
                      currentRegion).pendingRequests
  ELSE {}

\* counting from index from, line j comes before the blockLimit-th waitClick
\* and before the first end directive
Live(from, j, blockLimit) ==
  /\ Cardinality({k \in from..(j - 1) : IsDirective(k, "waitClick")}) < blockLimit
  /\ \A k \in from..(j - 1) : ~IsDirective(k, "end")

ChoiceLinesFrom(from) == {j \in from..(Len(scriptLines) - 1) : Shape(j).type = "choice"}

BlockEndsFrom(from) == {j \in from..(Len(scriptLines) - 1) : Shape(j).type = "choiceEnd"}

Least(S) == CHOOSE x \in S : \A y \in S : x <= y

Greatest(S) == CHOOSE x \in S : \A y \in S : x >= y

\* the indices the scans of the program start from: 0 in loadScript, the
\* cursor in next and selectChoice
StartIndices == {0, currentLineIndex} \cap 0..Len(scriptLines)

\* the scan from startIndex meets no Choice line before its stopping point
NoChoiceAhead(startIndex, blockLimit) ==
  \A c \in ChoiceLinesFrom(startIndex) : ~Live(startIndex, c, blockLimit)

LinearLookahead(startIndex, blockLimit) ==
  UNION {AssetsAt(j) : j \in {k \in startIndex..(Len(scriptLines) - 1) :
                                 Live(startIndex, k, blockLimit)}}

\* C21: a scan that meets no Choice line requests the assets of exactly the
\* directives before the blockLimit-th waitClick or the first end directive
\* (or the end of the script): none after that point, and none fewer.
C21_LinearLookaheadComplete ==
  \A startIndex \in StartIndices, blockLimit \in BlockLimits :
    NoChoiceAhead(startIndex, blockLimit)
      => Requested(startIndex, blockLimit) = LinearLookahead(startIndex, blockLimit)

\* the scan from startIndex reaches a Choice line: the first one comes before
\* its stopping point and before any ChoiceBlockEnd
FirstChoice(startIndex) == Least(ChoiceLinesFrom(startIndex))

ReachesChoice(startIndex, blockLimit) ==
  /\ ChoiceLinesFrom(startIndex) # {}
  /\ Live(startIndex, FirstChoice(startIndex), blockLimit)
  /\ \A e \in BlockEndsFrom(startIndex) : e > FirstChoice(startIndex)

\* where the scan stops once it is in a choice block
BlockEnd(c1) ==
  IF BlockEndsFrom(c1) = {} THEN Len(scriptLines) ELSE Least(BlockEndsFrom(c1))

\* the Choice line whose branch holds line j
BranchOf(c1, j) == Greatest({c \in ChoiceLinesFrom(c1) : c < j})

BranchLookaheadOf(startIndex, blockLimit, c1) ==
  UNION {AssetsAt(j) : j \in
           {k \in startIndex..(c1 - 1) : TRUE}
           \cup {k \in (c1 + 1)..(BlockEnd(c1) - 1) :
                   Live(BranchOf(c1, k) + 1, k, blockLimit)}}

BranchLookahead(startIndex, blockLimit) ==
  BranchLookaheadOf(startIndex, blockLimit, FirstChoice(startIndex))

\* C22: a scan that meets a Choice line counts its blocks from zero again at
\* every Choice line: it requests, for each branch, the assets of the
\* directives up to blockLimit waitClicks (or an end directive) after the
\* branch's Choice line, goes on to the next Choice line when a branch has
\* used its limit, and stops at the first ChoiceBlockEnd.
C22_BranchLookahead ==
  \A startIndex \in StartIndices, blockLimit \in BlockLimits :
    ReachesChoice(startIndex, blockLimit)
      => Requested(startIndex, blockLimit) = BranchLookahead(startIndex, blockLimit)

\* a scan with limit 1 has left out the rest of a used-up branch, taken the
\* start of the next branch and left out what follows the block
C22_Witness ==
  /\ Len(scriptLines) = 8 /\ call.op = "selectChoice"
  /\ ReachesChoice(0, 1)
  /\ AssetsAt(2) # {} /\ AssetsAt(2) \cap Requested(0, 1) = {}
  /\ AssetsAt(4) # {} /\ AssetsAt(4) \subseteq Requested(0, 1)
  /\ AssetsAt(7) # {} /\ AssetsAt(7) \cap Requested(0, 1) = {}

\* the trimmed line at a 0-based index, and the command the tokenizer makes of it
LineAt(j) == trim(scriptLines[j + 1])

CmdAt(j) == Parse(Machine, scriptLines[j + 1])

LineIndices == 0..(Len(scriptLines) - 1)

IsDirectiveCmd(cmd) == cmd.type = "command" /\ cmd.commandName # "speaker"

\* one bracketed token: an opening bracket, a name of word characters, then
\* the closing bracket or white space and arguments up to the closing bracket
\* that ends the line, with no bracket in between
TokenName(line) == SubSeq(line, 2, RunIn(line, 2, WordChars) - 1)

SingleBracketed(line) ==
  /\ Len(line) >= 3 /\ Char(line, 1) = "[" /\ Char(line, Len(line)) = "]"
  /\ Chars(SubSeq(line, 2, Len(line) - 1)) \cap {"[", "]"} = {}
  /\ TokenName(line) # ""
  /\ Char(line, 2 + Len(TokenName(line))) \in {" ", "]"}

TokenArgs(line) ==
  LET rest == trimStart(SubSeq(line, 2 + Len(TokenName(line)), Len(line) - 1))
  IN  IF rest = "" THEN <<>> ELSE splitWs(rest, 1, 1)

\* C27: a line is a Directive only if it starts with the no-op sentinel, is
\* exactly [k], or is one bracketed token whose name is not six hexadecimal
\* characters; one bracketed token with such a name is Dialogue, and any other
\* one is the Directive of its name with its arguments split on white space.
C27_DirectiveOnlyIfSingleToken ==
  \A j \in LineIndices :
    /\ IsDirectiveCmd(CmdAt(j))
         => \/ startsWith(LineAt(j), "$")
            \/ LineAt(j) = "[k]"
            \/ SingleBracketed(LineAt(j)) /\ ~IsHexColor(TokenName(LineAt(j)))
    /\ (SingleBracketed(LineAt(j)) /\ IsHexColor(TokenName(LineAt(j))))
         => CmdAt(j).type = "dialogue"
    /\ (SingleBracketed(LineAt(j)) /\ ~IsHexColor(TokenName(LineAt(j))) /\ LineAt(j) # "[k]")
         => /\ IsDirectiveCmd(CmdAt(j))
            /\ CmdAt(j).commandName = TokenName(LineAt(j))
            /\ CmdAt(j).args = TokenArgs(LineAt(j))

\* digits, the separator and a non-empty rest after the choice sentinel
ChoiceForm(line) ==
  \E k \in 3..(Len(line) - 1) :
    /\ Chars(SubSeq(line, 2, k - 1)) \subseteq DigitChars
    /\ Char(line, k) = ";"

ChoiceIdOf(line) ==
  parseInt(SubSeq(line, 2, (CHOOSE k \in 3..(Len(line) - 1) : Char(line, k) = ";") - 1))

\* the rule that classifies a trimmed line when the first match wins
FirstMatch(line) ==
  IF startsWith(line, "$") THEN "noop"
  ELSE IF startsWith(line, "?") /\ line = "?!" THEN "choiceEnd"
  ELSE IF startsWith(line, "?") /\ ChoiceForm(line) THEN "choice"
  ELSE IF startsWith(line, "@") THEN "speaker"
  ELSE IF startsWith(line, "[") THEN "bracket"
  ELSE "dialogue"

Classified(cmd, line, rule) ==
  CASE rule = "noop" -> cmd.type = "command" /\ cmd.commandName = "noop"
    [] rule = "choiceEnd" -> cmd.type = "choiceEnd"
    [] rule = "choice" -> cmd.type = "choice" /\ cmd.choiceId = ChoiceIdOf(line)
    [] rule = "speaker" -> cmd.type = "command" /\ cmd.commandName = "speaker"
    [] rule = "bracket" -> cmd.type = "dialogue" \/ IsDirectiveCmd(cmd)
    [] rule = "dialogue" -> cmd.type = "dialogue"

\* C28: the tokenizer classifies the trimmed line by the first rule that
\* matches, in the order no-op, choice, speaker, bracket, dialogue; a line of
\* the choice sentinel that has neither choice form is Dialogue.
C28_FirstMatchWins ==
  \A j \in LineIndices :
    /\ Classified(CmdAt(j), LineAt(j), FirstMatch(LineAt(j)))
    /\ (startsWith(LineAt(j), "?") /\ LineAt(j) # "?!" /\ ~ChoiceForm(LineAt(j)))
         => CmdAt(j).type = "dialogue"

\* a line of the choice sentinel with no text after the separator has been
\* run as dialogue
C28_Witness ==
  \E i \in 1..Len(log) :
    /\ log[i].type = "dialogue"
    /\ startsWith(LineAt(log[i].index), "?")
    /\ ~ChoiceForm(LineAt(log[i].index))

\* the expander with the text of a replacement set apart: a segment is a piece
\* of text and whether a rule produced it
RECURSIVE segments(_, _, _)
segments(s, i, matches) ==
  LET p == Min({j \in i..Len(s) : matches[j].len > 0} \cup {Len(s) + 1})
  IN  IF p > Len(s) THEN <<[text |-> SubSeq(s, i, Len(s)), made |-> FALSE]>>
      ELSE <<[text |-> SubSeq(s, i, p - 1), made |-> FALSE],
             [text |-> matches[p].out, made |-> TRUE]>>
           \o segments(s, p + matches[p].len, matches)

segmentsOf(rule, seg, playerName, playerGender) ==
  IF seg.made THEN <<seg>>
  ELSE segments(seg.text, 1,
                [j \in 1..Len(seg.text) |->
                   IF Char(seg.text, j) = "["
                   THEN MatchAt(rule, seg.text, j, playerName, playerGender)
                   ELSE NoMatch])

RECURSIVE eachSegment(_, _, _, _, _)
eachSegment(rule, segs, k, playerName, playerGender) ==
  IF k > Len(segs) THEN <<>>
  ELSE segmentsOf(rule, segs[k], playerName, playerGender)
       \o eachSegment(rule, segs, k + 1, playerName, playerGender)

RECURSIVE eachRule(_, _, _, _)
eachRule(rule, segs, playerName, playerGender) ==
  IF rule > 11 THEN segs
  ELSE eachRule(rule + 1, eachSegment(rule, segs, 1, playerName, playerGender),
                playerName, playerGender)

RECURSIVE joined(_, _)
joined(segs, k) == IF k > Len(segs) THEN "" ELSE segs[k].text \o joined(segs, k + 1)

Verbatim(text, playerName, playerGender) ==
  joined(eachRule(1, <<[text |-> text, made |-> FALSE]>>, playerName, playerGender), 1)

\* C29: the rules apply in their fixed order and no rule matches text that an
\* earlier rule produced: the text of a Dialogue line is its expansion with
\* every replacement, the chosen gender alternative and the player name
\* included, left as the rule produced it.
C29_ReplacementsAreVerbatim ==
  \A j \in LineIndices :
    CmdAt(j).type = "dialogue"
      => CmdAt(j).text = Verbatim(LineAt(j), state.playerName, state.playerGender)

InScript(index) == index >= 0 /\ index <= Len(scriptLines)

\* the cursor, the marker and the resume indices lie within the loaded script
IndicesInScript ==
  /\ InScript(currentLineIndex)
  /\ jumpOnNextChoiceMarker # NullIndex => InScript(jumpOnNextChoiceMarker)
  /\ \A id \in DOMAIN choiceMap : InScript(choiceMap[id])

\* a step of a call other than loadScript and selectChoice does not move the
\* cursor back
CursorAdvances ==
  (call'.op \notin {"loadScript", "selectChoice"}) => currentLineIndex' >= currentLineIndex

\* C30: in every reachable state the cursor is between 0 and the number of
\* lines of the loaded script, the marker and every resume index of the choice
\* map are indices of the loaded script, and within one loaded script the
\* cursor moves back only at a selectChoice jump.
C30_CursorWithinScript == []IndicesInScript /\ [][CursorAdvances]_vars

\* the loop of the last call stopped at a waitClick directive
StoppedAtWaitClick ==
  /\ call.ran /\ Len(log) > 0
  /\ log[Len(log)].type = "command" /\ log[Len(log)].commandName = "waitClick"
  /\ log[Len(log)].stop

\* C31: a call that returns because its loop stopped at a waitClick directive
\* leaves the script unfinished, so that the next advance is accepted, also
\* when the waitClick is the last line of the script.
C31_PausedIsNotFinished ==
  StoppedAtWaitClick => ~state.isFinished

\* C32: with no choices pending, selectChoice changes nothing: it neither
\* moves the cursor nor prompts again.
C32_ResolvedChoiceIsConsumed ==
  [][(call'.op = "selectChoice" /\ state.choices = <<>>)
       => (currentLineIndex' = currentLineIndex /\ state' = state)]_vars

\* C33: the active character, when there is one, has the id, the face and the
\* name of the Character stored under its code.
C33_ActiveCopyIsFaithful ==
  state.activeCharacter # NullChar
    => /\ hasChar(state.characters, ActiveCode(Cells(Machine)))
       /\ LET char == CharAt(Cells(Machine), ActiveCode(Cells(Machine)))
          IN  /\ state.activeCharacter[1].id = char.id
              /\ state.activeCharacter[1].face = char.face
              /\ state.activeCharacter[1].name = char.name

\* the element of the background-music channel is the one started for the id
PlayingTrack(cells, id) ==
  /\ cells.state.bgm = id
  /\ cells.bgmAudio # NoAudio
  /\ cells.audios[cells.bgmAudio].id = id

\* C34: a bgmStop naming the track the channel is playing clears the bgm field
\* and stops the track, whether the element was started from the asset's own
\* URL or from a cached object URL.
C34_BgmStopStopsNamedTrack ==
  \A i \in Steps("bgmStop") :
    (Len(log[i].cmd.args) > 0 /\ PlayingTrack(log[i].before, CodeOf(i)))
      => log[i].after.state.bgm = "null"

\* no fade loop is running on the element
Quiet(a) == \A f \in fades : f.audio # a

\* C35: the volume change requested last on an element wins: once every fade
\* loop on the element has run out, its volume is the target requested last,
\* and a background-music element is paused only if that target is 0.
C35_LastVolumeRequestWins ==
  \A a \in 1..Len(audios) :
    Quiet(a) => /\ audios[a].volume = audios[a].asked
                /\ (audios[a].kind = "bgm" /\ audios[a].paused) => audios[a].asked = 0


TmpT == TRUE

\* every load started has its text
AllFetched == fetches # <<>> /\ \A k \in 1..Len(fetches) : fetches[k].done

\* the load requested last still waits for its text
LatestInFlight == fetches # <<>> /\ ~fetches[Len(fetches)].done

\* once every load has its text the Script Source is the text of the load
\* requested last
LatestLoadWins == AllFetched => scriptLines = linesOf(fetches[Len(fetches)].content)

\* an advance while that load waits for its text runs no line: the lines there
\* are those of a script loaded before
NoAdvanceIntoOldScript == (LatestInFlight /\ call'.op = "next") => log' = <<>>

\* C36: overlapping loads are resolved in request order: when two loads were
\* started before either script text arrived, then after both texts arrived,
\* in either order, the Script Source is the text of the load requested last;
\* and an advance issued while a load is in flight executes no line of the
\* script loaded before.
C36_LoadsResolveInRequestOrder == []LatestLoadWins /\ [][NoAdvanceIntoOldScript]_vars

RECURSIVE SumSizes(_)
SumSizes(entries) ==
  IF entries = <<>> THEN 0 ELSE entries[1].size + SumSizes(Tail(entries))

\* C37: in every reachable state of the ResourceManager currentSize is the sum
\* of the sizes of the entries in the cache, whatever the interleaving of
\* preload calls, responses and failures, getResolvedUrl calls, evictions and
\* releaseAll, a releaseAll with requests in flight followed by a new preload
\* of the same URL included.
C37_SizeAccounting == currentSize = SumSizes(cache)

CachedWithinBound == SumSizes(cache) <= MAX_SIZE

NoOversizeEntry == \A i \in 1..Len(cache) : cache[i].size <= MAX_SIZE

\* the size counted after an insertion is what ensureSpace left plus the size
\* inserted, and no other step raises it
RoomBeforeInsert == currentSize <= MAX_SIZE

\* C38: the sizes of the cached entries never add up to more than MAX_SIZE, no
\* entry larger than MAX_SIZE is cached, and an asset of size s <= MAX_SIZE is
\* inserted only once entries were evicted until currentSize + s <= MAX_SIZE.
C38_CacheBound == CachedWithinBound /\ NoOversizeEntry /\ RoomBeforeInsert

IsPrefix(p, q) == Len(p) <= Len(q) /\ p = SubSeq(q, 1, Len(p))

\* a response for url is being inserted
Inserting(url) == requests'[url] < requests[url] /\ blobCount' # blobCount

\* C39: eviction is least-recently-used: the entries ensureSpace evicts for an
\* insertion are, in the order it evicts them, the cached entries whose last
\* use (insertion, preload hit or getResolvedUrl hit) is the oldest; an entry
\* used more recently than another is never evicted before it.
C39_EvictsLeastRecentlyUsed ==
  [][\A url \in CacheUrls :
       Inserting(url) => IsPrefix(evictions(Machine, blobSize(url)), recency)]_vars

\* the metadata held is that of the figure shown
DataIsCurrent == scriptData # NullData => scriptData = charaGraphId

\* a fetch started before the prop changed leaves the metadata alone
StaleFetchDiscarded ==
  \A k \in 1..Len(svtFetches) :
    (svtFetches[k].superseded /\ svtResolvedOf(k, TRUE)) => scriptData' = scriptData

\* C40: character sprite data never goes stale: whenever scriptData is
\* non-null it is the metadata fetched for the current charaGraphId prop, and
\* the result of a fetch that was in flight when the prop changed is discarded
\* whenever it completes, in whatever order overlapping fetches resolve.
C40_SpriteDataNeverStale == []DataIsCurrent /\ [][StaleFetchDiscarded]_vars

====
